---- MODULE Spec2Model ----
(***************************************************************************)
(* Channel-to-promise adapters of src/src/util.rs (register_tx_channel,    *)
(* register_rx_channel, register_oneshot) and the hand-written `resolve`   *)
(* adapters of the examples, run by the single-threaded script engine and  *)
(* the host tasks at the far end of each queue.                            *)
(*                                                                         *)
(* A script fragment runs synchronously on the engine thread and invokes   *)
(* adapters.  An Async adapter only creates its future and hands it to the *)
(* engine (a pending promise is returned); the engine polls the spawned    *)
(* futures, in spawn/wake order, after the fragment has ended.  A plain    *)
(* Func adapter runs to completion inside the call.                        *)
(***************************************************************************)
EXTENDS Integers, Sequences, FiniteSets, TLC

\* ------------------------------------------------------------------ bounds
MaxCalls == 3       \* adapter invocations the script makes in one run
MaxHostSend == 2    \* messages the host puts on the inbound queue

\* examples/module.rs: capacity of the queue behind `resolve`
ModCap == 1

Ids == 1..MaxCalls

MaxFlags == 2       \* --module and --script flags on one command line, together
MaxCallFlags == 2   \* --call flags on one command line; as many --arg flags
MaxInput == 4       \* characters on the REPL's standard input
MaxSends == 2       \* send(..) statements in the script of the channel examples
MaxPath == 3        \* characters of the path given to call_fn
MaxStmts == 3       \* statements of the script of async.rs
MaxTyped == 4       \* characters typed into a REPL session

\* examples/promise_channel.rs: capacity of the queue behind `send`
PcCap == 100

VARIABLES
    mode,        \* "script": a script fragment runs; "drive": the engine polls futures
    blocked,     \* the engine thread is stuck inside Mutex::lock
    cur,         \* invocation whose host code is executing on the engine thread (0: none)
    inv,         \* the adapter invocations, in invocation order
    ready,       \* spawned / woken futures the engine has still to poll
    held,        \* handle -> invocations holding the MutexGuard of that handle
    outQ,        \* register_tx_channel: the outbound unbounded queue
    outRxAlive,  \* its host-side receiver has not been dropped
    hostGot,     \* values the host took from the outbound queue
    inQ,         \* register_rx_channel: the inbound unbounded queue
    inTxAlive,   \* its host-side sender has not been dropped
    hostSent,    \* every value the host placed on the inbound queue
    slot,        \* handle -> the Option<oneshot::Sender> still holds the sender
    rxAlive,     \* handle -> the oneshot receiver has not been dropped
    delivered,   \* handle -> values the oneshot receiver was completed with
    modQ,        \* examples/module.rs: the bounded queue behind `resolve`
    tick,        \* examples/async_channel.rs: counter n of the sender task
    inRxAlive,   \* the script-side receiver of the inbound queue is alive
    hostOps,     \* sends of the host sender task: how each ended, whether logged
    cliArgs,     \* CLI driver: the parsed command line (CliArgs)
    cliPc,       \* CLI driver: "start", "run", "exit"
    cliPos,      \* CLI driver: next module / script / call to take, REPL done
    cliStage,    \* run_module: how far the module being run has come
    cliRan,      \* CLI driver: what it has executed so far, in order
    cliRead,     \* CLI driver: the last get_script call, its environment and result
    cliExit,     \* CLI driver: the result main returned
    replIn,      \* REPL: what is left to read on standard input
    replLines,   \* read_multiline_input: `lines` of the call in progress
    replRaw,     \* read_multiline_input: what read_line put in `buffer`, per line
    replPrompts, \* read_multiline_input: the prompts the call in progress printed
    replScan,    \* the last needs_more_input call: argument and result
    replRet,     \* the last return of read_multiline_input
    scProg,      \* example programs: which one runs
    scScript,    \* the values the script passes to send, statement by statement
    scPc,        \* where main is: "eval", "recv", "idle", "done", "error"
    scIp,        \* the script statement to execute next
    scQ,         \* the queue between `send` and the host
    scTasks,     \* futures spawned on the engine and not yet completed
    scJobs,      \* the engine's pending promise jobs, oldest first
    scProm,      \* what the spawned futures settled their promises with; for
                 \* async_macro.rs whether processData's promise is adopted
    scOut,       \* what has been printed, in order
    scGot,       \* what the host's recv returned (<<>>: not yet)
    resolveGone, \* the script has dropped the `resolve` closure
    waitRes,     \* the final wait of main on the one-shot signal
    cfEnv,       \* call_fn: what the global object holds
    cfPath,      \* call_fn: `path`, a sequence of characters
    cfArgs,      \* call_fn: `args`
    cfSegs,      \* call_fn: what the iterator of path.split(".") has still to yield
    cfObj,       \* call_fn: `obj`, as the property names leading to it from globals
    cfPc,        \* call_fn: "idle", "loop", "done"
    cfLog,       \* call_fn: the functions invoked, with their arguments
    cfRet,       \* call_fn: what it returned
    cliMade,     \* CLI driver: what main has created (runtime, channels, tasks, ..)
    asScript,    \* async.rs: the statements of the script
    asPc,        \* async.rs: where run() is
    asIp,        \* async.rs: the statement to execute next
    asVar,       \* async.rs: some_var
    asBody,      \* async.rs: how many times the body of async_with was entered
    asTasks,     \* async.rs: the futures of `delay` spawned and not yet completed
    asOut,       \* async.rs: what was printed, in order, and by whom
    rlVariant,   \* REPL session: "stdin" (repl), "rustyline_async", "rustyline"
    rlLines,     \* repl_rustyline: `lines`
    rlPrompt,    \* repl_rustyline: the prompt in effect
    rlSince,     \* repl_rustyline: the lines entered since the last evaluation
    rlUnder,     \* REPL session: the global `_` (<<>>: not set)
    rlLog,       \* REPL session: the scripts evaluated and what came of each
    rlOut,       \* REPL session: what was written to the terminal
    rlPc,        \* REPL session: "idle", "loop", "returned"
    rlRet,       \* REPL session: what the REPL function returned
    echoN,       \* demo.rs, the echo task: its counter n
    echoPc,      \* demo.rs, the echo task: "running", "stopped"
    echoLog,     \* demo.rs, the echo task: each message taken, the reply, the send result
    sendAlive    \* demo.rs: the sender behind `send` has not been dropped

cliVars == <<cliArgs, cliPc, cliPos, cliStage, cliRan, cliRead, cliExit>>
replVars == <<replIn, replLines, replRaw, replPrompts, replScan, replRet>>
scVars == <<scProg, scScript, scPc, scIp, scQ, scTasks, scJobs, scProm, scOut, scGot>>
waitVars == <<resolveGone, waitRes>>
callVars == <<cfEnv, cfPath, cfArgs, cfSegs, cfObj, cfPc, cfLog, cfRet>>
asyncVars == <<asScript, asPc, asIp, asVar, asBody, asTasks, asOut>>
loopVars == <<rlVariant, rlLines, rlPrompt, rlSince, rlUnder, rlLog, rlOut, rlPc, rlRet>>
demoVars == <<echoN, echoPc, echoLog, sendAlive>>
restVars == <<callVars, cliMade, asyncVars, loopVars, demoVars>>
progVars == <<cliVars, replVars, scVars, waitVars, restVars>>

vars == <<mode, blocked, cur, inv, ready, held, outQ, outRxAlive,
          hostGot, inQ, inTxAlive, hostSent, slot, rxAlive, delivered, modQ,
          tick, inRxAlive, hostOps, cliVars, replVars, scVars, waitVars,
          restVars>>

engineVars == <<mode, blocked, cur, inv, ready, held>>
outVars == <<outQ, outRxAlive, hostGot>>
inVars == <<inQ, inTxAlive, hostSent, tick, inRxAlive>>
oneVars == <<slot, rxAlive, delivered>>
exVars == <<modQ, hostOps>>
adapterVars == <<engineVars, outVars, inVars, oneVars, exVars>>
\* What a step of the CLI driver, and a step of the REPL, leaves alone.
notCli == <<adapterVars, replVars, scVars, waitVars, restVars>>
notRepl == <<adapterVars, cliVars, scVars, waitVars, restVars>>
notSc == <<adapterVars, cliVars, replVars, waitVars, restVars>>
otherVars == <<adapterVars, cliVars, scVars, waitVars>>
notSetup == <<adapterVars, replVars, scVars, waitVars, callVars, asyncVars, loopVars,
              demoVars>>
notCall == <<otherVars, replVars, cliMade, asyncVars, loopVars, demoVars>>
notAsync == <<otherVars, replVars, callVars, cliMade, loopVars, demoVars>>
notLoop == <<otherVars, callVars, cliMade, asyncVars, demoVars>>
notDemo == <<cliVars, replVars, scVars, waitVars, callVars, cliMade, asyncVars, loopVars>>

\* Handles guarded by a std::sync::Mutex, one per registered adapter.
Locks == {"send", "recv", "oneshot", "resolve"}
\* Adapters wrapping a one-shot sender in Mutex<Option<..>>.
OneShots == {"oneshot", "resolve"}

\* -------------------------------------------------------------- primitives

\* std::sync::Mutex is poisoned only when a holder panics with the guard alive;
\* no holder in util.rs or the examples can panic, so lock() never returns Err.
Poisoned(h) == FALSE

\* tokio::sync::mpsc::UnboundedSender::send: Err exactly when the receiver is gone.
UnboundedSend(q, alive, v) ==
    IF alive THEN [ok |-> TRUE, q |-> Append(q, v)]
             ELSE [ok |-> FALSE, q |-> q]

\* tokio::sync::mpsc::UnboundedReceiver::recv, one poll of it: buffered values
\* first, then None once every sender is gone, else Pending.
RecvPoll(q, alive) ==
    IF q # <<>> THEN [r |-> "some", v |-> Head(q), q |-> Tail(q)]
    ELSE IF ~alive THEN [r |-> "none", v |-> 0, q |-> q]
    ELSE [r |-> "pending", v |-> 0, q |-> q]

\* A new invocation record.
\*   st    what the script sees of the call: a pending promise ("spawned",
\*         "locked", "parked", "stuck"), "resolved" / "rejected", or for a plain
\*         function "called", "locked", "returned" / "thrown"
\*   val   the value a promise was resolved with; err  the exception message
\*   fail  how the queue primitive under the adapter failed ("none" if it did not)
\*   enq   the argument was placed on the queue / handed to the one-shot receiver
\*   gone  the far end was already dropped when the primitive was called
\*   live  the script fragment that made the call is still running
\*   empty the inbound queue was empty and open at the call
\*   late  the sender of the inbound queue was already dropped at the call
NewInv(k, a) ==
    [kind |-> k, arg |-> a, st |-> "spawned", val |-> 0, err |-> "",
     fail |-> "none", enq |-> FALSE, gone |-> FALSE, live |-> TRUE,
     empty |-> (k = "recv" /\ inQ = <<>> /\ inTxAlive),
     late |-> (k = "recv" /\ ~inTxAlive)]

\* The state of the adapters, their queues and the engine after registration.
AdapterInit ==
    /\ mode = "script"
    /\ blocked = FALSE
    /\ cur = 0
    /\ inv = <<>>
    /\ ready = <<>>
    /\ held = [h \in Locks |-> {}]
    /\ outQ = <<>>
    /\ outRxAlive = TRUE
    /\ hostGot = <<>>
    /\ inQ = <<>>
    /\ inTxAlive = TRUE
    /\ hostSent = <<>>
    /\ slot = [h \in OneShots |-> TRUE]
    /\ rxAlive = [h \in OneShots |-> TRUE]
    /\ delivered = [h \in OneShots |-> <<>>]
    /\ modQ = <<>>
    /\ tick = 0
    /\ inRxAlive = TRUE
    /\ hostOps = <<>>

\* The CLI driver has not been started.
CliIdle ==
    /\ cliArgs = [module |-> <<>>, script |-> <<>>, repl |-> FALSE,
                  call |-> <<>>, arg |-> <<>>]
    /\ cliPc = "start"
    /\ cliPos = [m |-> 1, s |-> 1, r |-> FALSE, c |-> 1]
    /\ cliStage = "none"
    /\ cliRan = <<>>
    /\ cliRead = [n |-> 0]
    /\ cliExit = [kind |-> "none"]

\* No REPL has been started.
ReplIdle ==
    /\ replIn = <<>>
    /\ replLines = <<>>
    /\ replRaw = <<>>
    /\ replPrompts = <<>>
    /\ replScan = [n |-> 0]
    /\ replRet = [n |-> 0]

\* No example program has been started.
ScIdle ==
    /\ scProg = "none"
    /\ scScript = <<>>
    /\ scPc = "eval"
    /\ scIp = 1
    /\ scQ = <<>>
    /\ scTasks = <<>>
    /\ scJobs = <<>>
    /\ scProm = [p |-> <<>>, adopt |-> FALSE]
    /\ scOut = <<>>
    /\ scGot = <<>>
    /\ resolveGone = FALSE
    /\ waitRes = [kind |-> "none", v |-> 0]

\* call_fn has not been called.
CallIdle ==
    /\ cfEnv = [a |-> "undefined", aa |-> "undefined", ab |-> "undefined",
                b |-> "undefined"]
    /\ cfPath = <<>>
    /\ cfArgs = "unit"
    /\ cfSegs = <<>>
    /\ cfObj = <<>>
    /\ cfPc = "idle"
    /\ cfLog = <<>>
    /\ cfRet = [kind |-> "none", text |-> <<>>]

\* async.rs has not been started.
AsyncIdle ==
    /\ asScript = <<>>
    /\ asPc = "start"
    /\ asIp = 1
    /\ asVar = 1
    /\ asBody = 0
    /\ asTasks = <<>>
    /\ asOut = <<>>

\* No REPL session has been started.
LoopIdle ==
    /\ rlVariant = "stdin"
    /\ rlLines = <<>>
    /\ rlPrompt = ">>> "
    /\ rlSince = <<>>
    /\ rlUnder = <<>>
    /\ rlLog = <<>>
    /\ rlOut = <<>>
    /\ rlPc = "idle"
    /\ rlRet = [kind |-> "none", cause |-> ""]

\* The echo task of demo.rs has been spawned and has received nothing; the
\* sender behind `send` is registered.
DemoIdle ==
    /\ echoN = 0
    /\ echoPc = "running"
    /\ echoLog = <<>>
    /\ sendAlive = TRUE

\* The parts of the program that are not running.
RestIdle ==
    /\ CallIdle
    /\ cliMade = {}
    /\ AsyncIdle
    /\ LoopIdle
    /\ DemoIdle

Init ==
    /\ AdapterInit
    /\ RestIdle
    /\ CliIdle
    /\ ReplIdle
    /\ ScIdle

\* ------------------------------------------------------------ the engine

CanCall == mode = "script" /\ ~blocked /\ cur = 0 /\ Len(inv) < MaxCalls

\* The adapters never look into a message.  The script passes a value it has not
\* passed before on every call, so that a message lost, repeated or out of order
\* shows: the i-th invocation passes i.
Fresh == Len(inv) + 1

\* Func::new(Async(..)): the closure builds the future, the engine spawns it and
\* the call returns the pending promise.
SpawnAsync(k, a) ==
    /\ CanCall
    /\ inv' = Append(inv, NewInv(k, a))
    /\ ready' = Append(ready, Len(inv) + 1)
    /\ UNCHANGED <<mode, blocked, cur, held>>

\* script: send(v)
ScriptSend ==
    /\ SpawnAsync("send", Fresh)
    /\ UNCHANGED <<outVars, inVars, oneVars, exVars, progVars>>

\* The synchronous part of a script fragment ends; the engine returns to driving.
ScriptYield ==
    /\ mode = "script" /\ ~blocked /\ cur = 0
    /\ mode' = "drive"
    /\ inv' = [i \in 1..Len(inv) |-> [inv[i] EXCEPT !.live = FALSE]]
    /\ UNCHANGED <<blocked, cur, ready, held>>
    /\ UNCHANGED <<outVars, inVars, oneVars, exVars, progVars>>

\* A job (promise reaction, timer callback) starts the next script fragment.
RunJob ==
    /\ mode = "drive" /\ ~blocked /\ cur = 0 /\ Len(inv) < MaxCalls
    /\ mode' = "script"
    /\ UNCHANGED <<blocked, cur, inv, ready, held>>
    /\ UNCHANGED <<outVars, inVars, oneVars, exVars, progVars>>

\* An adapter that drives its future inside the call.
PollEager == TRUE

\* The engine may poll futures only while no script fragment is running.
PollAllowed == mode = "drive"

\* A handle shared without a lock.
LockFreeAlways(h) == TRUE

\* The guard of handle h can be taken.
LockFree(h) == held[h] = {}

\* The engine polls the next future; its first step is tx.lock() / rx.lock().
\* A future woken while parked inside recv().await still owns its guard.
\* Mutex::lock on a mutex held by a future of the same thread never returns.
PollLock ==
    /\ PollAllowed /\ ~blocked /\ cur = 0 /\ ready # <<>>
    /\ LET i == Head(ready)
           h == inv[i].kind
       IN /\ ready' = Tail(ready)
          /\ cur' = IF inv[i].st # "parked" /\ LockFree(h) /\ Poisoned(h) THEN 0 ELSE i
          /\ IF inv[i].st = "parked"
             THEN /\ inv' = [inv EXCEPT ![i].st = "locked"]
                  /\ UNCHANGED <<held, blocked>>
             ELSE IF LockFree(h) /\ Poisoned(h)
             THEN /\ inv' = [inv EXCEPT ![i].st = "rejected",
                                        ![i].err = "Mutex Error",
                                        ![i].fail = "poison"]
                  /\ UNCHANGED <<held, blocked>>
             ELSE IF LockFree(h)
             THEN /\ inv' = [inv EXCEPT ![i].st = "locked"]
                  /\ held' = [held EXCEPT ![h] = @ \cup {i}]
                  /\ UNCHANGED blocked
             ELSE /\ inv' = [inv EXCEPT ![i].st = "stuck"]
                  /\ blocked' = TRUE
                  /\ UNCHANGED held
    /\ UNCHANGED mode
    /\ UNCHANGED <<outVars, inVars, oneVars, exVars, progVars>>

\* A send adapter that ignores the result of send.
TxOutcomeAlwaysOk(ok) == [st |-> "resolved", err |-> ""]

\* How the send future ends for the result of UnboundedSender::send.
TxOutcome(ok) ==
    IF ok THEN [st |-> "resolved", err |-> ""]
          ELSE [st |-> "rejected", err |-> "TX Channel Closed"]

\* register_tx_channel, the body of the future: guard.send(msg), guard dropped.
TxSend ==
    /\ cur # 0 /\ inv[cur].kind = "send" /\ inv[cur].st = "locked"
    /\ LET r == UnboundedSend(outQ, outRxAlive, inv[cur].arg)
           o == TxOutcome(r.ok)
       IN /\ outQ' = r.q
          /\ inv' = [inv EXCEPT ![cur].st = o.st, ![cur].err = o.err,
                                ![cur].fail = IF r.ok THEN "none" ELSE "closed",
                                ![cur].enq = (r.q # outQ),
                                ![cur].gone = ~outRxAlive]
    /\ held' = [held EXCEPT !["send"] = @ \ {cur}]
    /\ cur' = 0
    /\ UNCHANGED <<mode, blocked, ready, outRxAlive, hostGot>>
    /\ UNCHANGED <<inVars, oneVars, exVars, progVars>>

\* ---------------------------------------------------- host, outbound queue

\* The host task takes the next message from the outbound queue.
HostRecv ==
    /\ outRxAlive /\ outQ # <<>>
    /\ hostGot' = Append(hostGot, Head(outQ))
    /\ outQ' = Tail(outQ)
    /\ UNCHANGED outRxAlive
    /\ UNCHANGED <<engineVars, inVars, oneVars, exVars, progVars>>

\* The host drops the receiver; what is still queued is discarded.
HostDropRx ==
    /\ outRxAlive
    /\ outRxAlive' = FALSE
    /\ outQ' = <<>>
    /\ UNCHANGED hostGot
    /\ UNCHANGED <<engineVars, inVars, oneVars, exVars, progVars>>


\* ------------------------------------------------------ the receive adapter

\* script: recv()
ScriptRecv ==
    /\ SpawnAsync("recv", 0)
    /\ UNCHANGED <<outVars, inVars, oneVars, exVars, progVars>>

\* A receive adapter that drops the message it was handed.
RxOutcomeLost(r, v) ==
    IF r = "pending" THEN [st |-> "parked", val |-> 0, err |-> ""]
    ELSE [st |-> "rejected", val |-> 0, err |-> "RX Channel Closed"]

\* How the recv future goes on for the result of one poll of recv().
RxOutcome(r, v) ==
    IF r = "some" THEN [st |-> "resolved", val |-> v, err |-> ""]
    ELSE IF r = "none" THEN [st |-> "rejected", val |-> 0, err |-> "RX Channel Closed"]
    ELSE [st |-> "parked", val |-> 0, err |-> ""]

\* register_rx_channel, the body of the future: guard.recv().await.  The guard is
\* a temporary of the awaited expression: it is dropped when recv() completes and
\* stays alive while the future is parked.
RxRecv ==
    /\ cur # 0 /\ inv[cur].kind = "recv" /\ inv[cur].st = "locked"
    /\ LET r == RecvPoll(inQ, inTxAlive)
           o == RxOutcome(r.r, r.v)
       IN /\ inQ' = r.q
          /\ inv' = [inv EXCEPT ![cur].st = o.st, ![cur].val = o.val,
                                ![cur].err = o.err,
                                ![cur].fail = IF r.r = "none" THEN "closed" ELSE "none",
                                ![cur].gone = (r.r = "none")]
          /\ held' = IF o.st = "parked" THEN held
                     ELSE [held EXCEPT !["recv"] = @ \ {cur}]
    /\ cur' = 0
    /\ UNCHANGED <<mode, blocked, ready, inTxAlive, hostSent, tick, inRxAlive>>
    /\ UNCHANGED <<outVars, oneVars, exVars, progVars>>

\* The queue wakes the future parked in recv(): it is scheduled for another poll.
Woken(rdy) ==
    LET parked == {i \in 1..Len(inv) : inv[i].st = "parked"}
        queued == {rdy[k] : k \in 1..Len(rdy)}
    IN IF parked \ queued = {} THEN rdy
       ELSE Append(rdy, CHOOSE i \in parked \ queued : TRUE)

\* ----------------------------------------------------- host, inbound queue

\* The host sends a value on the inbound queue.  The hosts of this repository
\* number their messages ("Send [n]", "MSG [n]"): the n-th message is n.
HostSend ==
    /\ inTxAlive /\ Len(hostSent) < MaxHostSend
    /\ LET v == Len(hostSent) + 1
       IN /\ inQ' = UnboundedSend(inQ, inRxAlive, v).q
          /\ hostSent' = Append(hostSent, v)
    /\ ready' = Woken(ready)
    /\ UNCHANGED <<mode, blocked, cur, inv, held, inTxAlive, tick, inRxAlive>>
    /\ UNCHANGED <<outVars, oneVars, exVars, progVars>>

\* The host drops the sender: the inbound queue is closed.
HostDropTx ==
    /\ inTxAlive
    /\ inTxAlive' = FALSE
    /\ ready' = Woken(ready)
    /\ UNCHANGED <<mode, blocked, cur, inv, held, inQ, hostSent, tick, inRxAlive>>
    /\ UNCHANGED <<outVars, oneVars, exVars, progVars>>


\* ------------------------------------------------- the one-shot adapters

\* Func::new(..) without Async: the closure runs inside the call.
CallSync(k, a) ==
    /\ CanCall
    /\ inv' = Append(inv, [NewInv(k, a) EXCEPT !.st = "called"])
    /\ cur' = Len(inv) + 1
    /\ UNCHANGED <<mode, blocked, ready, held>>

\* script: resolve(v), registered by register_oneshot
ScriptOneshot ==
    /\ CallSync("oneshot", Fresh)
    /\ UNCHANGED <<outVars, inVars, oneVars, exVars, progVars>>

\* script: resolve(v), the closure of async_channel.rs / async_channel_macro.rs /
\* mqtt.rs
ScriptResolve ==
    /\ CallSync("resolve", Fresh)
    /\ UNCHANGED <<outVars, inVars, oneVars, exVars, progVars>>

\* tx.lock() of a one-shot adapter.  register_oneshot throws on a poisoned lock,
\* the examples' closure skips its body.
OneLock ==
    /\ cur # 0 /\ inv[cur].kind \in OneShots /\ inv[cur].st = "called"
    /\ LET h == inv[cur].kind
       IN IF ~LockFree(h)
          THEN /\ inv' = [inv EXCEPT ![cur].st = "stuck"]
               /\ blocked' = TRUE
               /\ UNCHANGED <<held, cur>>
          ELSE IF Poisoned(h)
          THEN /\ inv' = [inv EXCEPT
                    ![cur].st = IF h = "oneshot" THEN "thrown" ELSE "returned",
                    ![cur].err = IF h = "oneshot" THEN "Mutex Error" ELSE "",
                    ![cur].fail = "poison"]
               /\ cur' = 0
               /\ UNCHANGED <<held, blocked>>
          ELSE /\ inv' = [inv EXCEPT ![cur].st = "locked"]
               /\ held' = [held EXCEPT ![h] = @ \cup {cur}]
               /\ UNCHANGED <<blocked, cur>>
    /\ UNCHANGED <<mode, ready>>
    /\ UNCHANGED <<outVars, inVars, oneVars, exVars, progVars>>

\* Reading the Option without emptying it.
TakeKeep(s) == [some |-> s, left |-> s]

\* Option::take: hands out the content and leaves None.
Take(s) == [some |-> s, left |-> FALSE]

\* A send that hands the value over whether or not anyone is left to take it.
OneshotSendBlind(alive, got, v) == [ok |-> TRUE, got |-> Append(got, v)]

\* oneshot::Sender::send: Err exactly when the receiver is gone.
OneshotSend(alive, got, v) ==
    IF alive THEN [ok |-> TRUE, got |-> Append(got, v)]
             ELSE [ok |-> FALSE, got |-> got]

\* A one-shot adapter that returns normally whatever happened.
OneshotOutcomeSilent(some, ok) == [st |-> "returned", err |-> ""]

\* register_oneshot: what the call yields for guard.take() and tx.send(msg).
OneshotOutcome(some, ok) ==
    IF ~some THEN [st |-> "thrown", err |-> "Already Resolved"]
    ELSE IF ~ok THEN [st |-> "thrown", err |-> "TX Channel Closed"]
    ELSE [st |-> "returned", err |-> ""]

\* The examples' closure: `if let Some(..)` without else, `let _ = tx.send(..)`:
\* the call returns normally whatever happened.
ResolveOutcome(some, ok) == [st |-> "returned", err |-> ""]

\* guard.take(), tx.send(msg) under the guard, then the guard is dropped.
Fire(h, o, t, r) ==
    /\ slot' = [slot EXCEPT ![h] = t.left]
    /\ delivered' = [delivered EXCEPT ![h] = IF t.some THEN r.got ELSE @]
    /\ inv' = [inv EXCEPT ![cur].st = o.st, ![cur].err = o.err,
                          ![cur].fail = IF ~t.some THEN "used"
                                        ELSE IF ~r.ok THEN "closed" ELSE "none",
                          ![cur].enq = (t.some /\ r.ok),
                          ![cur].gone = ~rxAlive[h]]
    /\ held' = [held EXCEPT ![h] = @ \ {cur}]
    /\ cur' = 0
    /\ UNCHANGED <<mode, blocked, ready, rxAlive>>
    /\ UNCHANGED <<outVars, inVars, exVars, progVars>>

\* register_oneshot, the body under the guard.
OneFire ==
    /\ cur # 0 /\ inv[cur].kind = "oneshot" /\ inv[cur].st = "locked"
    /\ LET t == Take(slot["oneshot"])
           r == OneshotSend(rxAlive["oneshot"], delivered["oneshot"], inv[cur].arg)
       IN Fire("oneshot", OneshotOutcome(t.some, r.ok), t, r)

\* The examples' resolve closure, the body under the guard.
ResolveFire ==
    /\ cur # 0 /\ inv[cur].kind = "resolve" /\ inv[cur].st = "locked"
    /\ LET t == Take(slot["resolve"])
           r == OneshotSend(rxAlive["resolve"], delivered["resolve"], inv[cur].arg)
       IN Fire("resolve", ResolveOutcome(t.some, r.ok), t, r)

\* The host drops the receiver of register_oneshot's signal.
HostDropOne ==
    /\ rxAlive["oneshot"]
    /\ rxAlive' = [rxAlive EXCEPT !["oneshot"] = FALSE]
    /\ UNCHANGED <<slot, delivered>>
    /\ UNCHANGED <<engineVars, outVars, inVars, exVars, progVars>>


\* ------------------------------------------- examples: module.rs, async_channel.rs

\* tokio::sync::mpsc::Sender::try_send on a queue of capacity cap.
TrySend(q, cap, alive, v) ==
    IF ~alive THEN [fail |-> "closed", q |-> q]
    ELSE IF Len(q) >= cap THEN [fail |-> "full", q |-> q]
    ELSE [fail |-> "none", q |-> Append(q, v)]

\* examples/module.rs, script: resolve(v) is `let _ = tx.try_send(result)`.  The
\* receiver is read only after the engine has gone idle, so it is alive and the
\* queue is not drained while the script runs.
ScriptResolveMod ==
    /\ CanCall
    /\ LET r == TrySend(modQ, ModCap, TRUE, Fresh)
       IN /\ modQ' = r.q
          /\ inv' = Append(inv, [NewInv("resolve_mod", Fresh) EXCEPT
                       !.st = "returned", !.fail = r.fail,
                       !.enq = (r.fail = "none")])
    /\ UNCHANGED <<mode, blocked, cur, ready, held, hostOps>>
    /\ UNCHANGED <<outVars, inVars, oneVars, progVars>>

\* examples/async_channel.rs, the sender task: what it prints for a send.
SenderReport(ok) == IF ok THEN "Sent Message" ELSE "Error Sending Message"

\* examples/async_channel.rs, one turn of the sender task's loop.
SenderTick ==
    /\ tick < MaxHostSend
    /\ LET r == UnboundedSend(inQ, inRxAlive, tick)
       IN /\ inQ' = r.q
          /\ hostOps' = Append(hostOps,
                [fail |-> IF r.ok THEN "none" ELSE "closed",
                 line |-> SenderReport(r.ok)])
    /\ tick' = tick + 1
    /\ UNCHANGED <<inTxAlive, hostSent, inRxAlive, modQ>>
    /\ UNCHANGED <<engineVars, outVars, oneVars, progVars>>

\* examples/async_channel.rs, the end of main: the engine has gone idle, the
\* context and with it the receiver behind msg_rx are dropped.
EngineDrop ==
    /\ mode = "drive" /\ ~blocked /\ cur = 0 /\ ready = <<>>
    /\ mode' = "done"
    /\ inRxAlive' = FALSE
    /\ UNCHANGED <<blocked, cur, inv, ready, held>>
    /\ UNCHANGED <<inQ, inTxAlive, hostSent, tick>>
    /\ UNCHANGED <<outVars, oneVars, exVars, progVars>>

Next ==
    \/ ScriptSend
    \/ ScriptYield
    \/ RunJob
    \/ PollLock
    \/ TxSend
    \/ HostRecv
    \/ HostDropRx
    \/ ScriptRecv
    \/ RxRecv
    \/ HostSend
    \/ HostDropTx
    \/ ScriptOneshot
    \/ OneLock
    \/ OneFire
    \/ HostDropOne

\* The adapters of src/src/util.rs, as examples/demo.rs registers them.
Spec == Init /\ [][Next]_vars

NextEx ==
    \/ ScriptOneshot
    \/ ScriptResolve
    \/ ScriptResolveMod
    \/ ScriptYield
    \/ RunJob
    \/ OneLock
    \/ OneFire
    \/ ResolveFire
    \/ HostDropOne
    \/ SenderTick
    \/ EngineDrop

\* The one-shot adapters side by side: register_oneshot and the closures the
\* examples write by hand, with the host sender task of async_channel.rs.
SpecEx == Init /\ [][NextEx]_vars

\* ===================================================== src/run.rs, the CLI driver
\* Text is a sequence of one-character strings.

SeqsUpTo(S, n) == UNION {[1..k -> S] : k \in 0..n}

\* What standard input holds, and what the file at `path` holds.
StdinText == <<"S">>
FileText(path) == <<"#">> \o path
Paths == {<<"f">>}

\* The environment of one read: whether standard input can be read to a String
\* and which files can.
Io == [stdinOk : BOOLEAN, readable : SUBSET Paths]

\* std::io::stdin().read_to_string
ReadStdin(io) ==
    IF io.stdinOk THEN [ok |-> TRUE, text |-> StdinText]
                  ELSE [ok |-> FALSE, text |-> <<>>]

\* std::fs::read_to_string
ReadFile(io, path) ==
    IF path \in io.readable THEN [ok |-> TRUE, text |-> FileText(path)]
                            ELSE [ok |-> FALSE, text |-> <<>>]

\* str::starts_with for a one-character pattern
StartsWith(s, c) == Len(s) >= 1 /\ s[1] = c

\* get_script that opens the file under the whole argument, '@' included.
GetScriptWholeName(script, io) ==
    IF script = <<"-">> THEN ReadStdin(io)
    ELSE IF StartsWith(script, "@") THEN ReadFile(io, script)
    ELSE [ok |-> TRUE, text |-> script]

\* get_script: literal script, @file or stdin (-)
GetScript(script, io) ==
    IF script = <<"-">> THEN ReadStdin(io)
    ELSE IF StartsWith(script, "@") THEN ReadFile(io, SubSeq(script, 2, Len(script)))
    ELSE [ok |-> TRUE, text |-> script]

\* Option<String>: <<>> is None, <<x>> is Some(x).
\* Option::unwrap_or with the default dropped.
UnwrapOrEmpty(o, d) == IF o = <<>> THEN "" ELSE o[1]

\* Option::unwrap_or
UnwrapOr(o, d) == IF o = <<>> THEN d ELSE o[1]

\* What ctx.eval can come back with: a value, or an error with the pending
\* exception being an Error object (message and stack each present or not) or
\* some other thrown value.
EvalResults ==
    {[ok |-> TRUE, v |-> v, ex |-> FALSE, msg |-> <<>>, stack |-> <<>>] :
        v \in {"undefined", "1"}}
    \cup {[ok |-> FALSE, v |-> "", ex |-> TRUE, msg |-> m, stack |-> t] :
        m \in {<<>>, <<"m">>}, t \in {<<>>, <<"s">>}}
    \cup {[ok |-> FALSE, v |-> "", ex |-> FALSE, msg |-> <<>>, stack |-> <<>>]}

\* run_script that hands back Ok whatever ctx.eval came back with.
RunScriptSwallow(ev) == [ok |-> TRUE, v |-> ev.v, err |-> <<>>]

\* run_script: the result for what ctx.eval came back with.
RunScript(ev) ==
    IF ev.ok THEN [ok |-> TRUE, v |-> ev.v, err |-> <<>>]
    ELSE IF ev.ex
    THEN [ok |-> FALSE, v |-> "",
          err |-> <<UnwrapOr(ev.msg, "-"), "\n", UnwrapOr(ev.stack, "-")>>]
    ELSE [ok |-> FALSE, v |-> "", err |-> <<"JS Error: ", "e">>]

\* The command lines: a script argument is "-", "@f" or the literal "-@"; an
\* --arg is empty, the JSON text 1 or the broken JSON text {.  The driver never
\* looks into a function name: the i-th --call names function i.  --arg is read
\* only by the call loop, after every module and script has run: the command
\* lines are those without --arg and those without --module and --script.
ScriptArgs == {<<"-">>, <<"@", "f">>, <<"-", "@">>}
JsonArgs == {<<>>, <<"1">>, <<"{">>}
CliArgTuples ==
    {x \in SeqsUpTo(ScriptArgs, MaxFlags) \X SeqsUpTo(ScriptArgs, MaxFlags)
            \X BOOLEAN \X (0..MaxCallFlags) \X SeqsUpTo(JsonArgs, MaxCallFlags) :
        /\ Len(x[1]) + Len(x[2]) <= MaxFlags
        /\ x[5] = <<>> \/ (x[1] = <<>> /\ x[2] = <<>>)}
CliArgSets ==
    {[module |-> x[1], script |-> x[2], repl |-> x[3],
      call |-> [i \in 1..x[4] |-> i], arg |-> x[5]] : x \in CliArgTuples}

\* ctx.json_parse on the --arg texts above
JsonParse(a) == IF a = <<"1">> THEN [ok |-> TRUE, v |-> 1] ELSE [ok |-> FALSE, v |-> 0]

\* main: "Check that we have something to do"
CliNothingToDo(a) ==
    a.script = <<>> /\ a.module = <<>> /\ a.call = <<>> /\ ~a.repl

\* `?` on an Err inside main: main returns the error.
Fatal(label, text) ==
    /\ cliPc' = "exit"
    /\ cliExit' = [kind |-> "err", label |-> label, text |-> text]

\* get_script as the driver calls it, with the environment it met.
ReadArg(src, io) == [n |-> cliRead.n + 1, src |-> src, io |-> io, res |-> GetScript(src, io)]

\* The generated usage text of CliArgs, for program name `name`.
HelpText(name) == <<"Usage: ", name, " [--script <script...>] [--module <module...>]",
                   " [--repl] [--call <call...>] [--arg <arg...>]">>

\* A parser that takes --help for an ordinary switch.
FromArgsNoHelp(name, flags) == [ok |-> TRUE, output |-> <<>>]

\* CliArgs::from_args(&[name], flags): --help makes argh return the early exit
\* whose output is the usage text.
FromArgs(name, flags) ==
    IF \E k \in 1..Len(flags) : flags[k] = "--help"
    THEN [ok |-> FALSE, output |-> HelpText(name)]
    ELSE [ok |-> TRUE, output |-> <<>>]

\* main with nothing to do: from_args(.., ["--help"]).map_err(..)?, the help
\* text comes back as main's error.
CliHelp ==
    /\ cliPc = "start" /\ CliNothingToDo(cliArgs)
    /\ LET r == FromArgs("demo", <<"--help">>)
       IN IF r.ok THEN /\ cliPc' = "checked"
                       /\ UNCHANGED cliExit
                  ELSE Fatal("help", r.output)
    /\ UNCHANGED <<cliArgs, cliPos, cliStage, cliRan, cliRead>>
    /\ UNCHANGED notCli

\* main up to the first loop of the async_with block: runtime, context, channels,
\* host tasks, registration of the adapters.
CliSetup ==
    /\ IF cliPc = "start" THEN ~CliNothingToDo(cliArgs) ELSE cliPc = "checked"
    /\ cliPc' = "run"
    /\ cliMade' = {"runtime", "context", "channels", "tasks", "adapters"}
    /\ UNCHANGED <<cliArgs, cliPos, cliStage, cliRan, cliRead, cliExit>>
    /\ UNCHANGED notSetup

ModulesDone == cliPos.m > Len(cliArgs.module)
ScriptsDone == ModulesDone /\ cliPos.s > Len(cliArgs.script)
ReplDone == ScriptsDone /\ (cliArgs.repl => cliPos.r)
CallsDone == ReplDone /\ cliPos.c > Len(cliArgs.call)

\* The last entry of the log: stage st of run_module was started and went well
\* or not.
StageRun(ran, st, ok) ==
    [ran EXCEPT ![Len(ran)].stages = Append(@, st),
                ![Len(ran)].failed = IF ok THEN "" ELSE st]

\* `for module in args.module`: get_script, then run_module up to Module::declare.
CliModuleDeclare ==
    /\ cliPc = "run" /\ cliStage = "none" /\ ~ModulesDone
    /\ \E io \in Io, ok \in BOOLEAN :
         LET rd == ReadArg(cliArgs.module[cliPos.m], io)
             e == [kind |-> "module", idx |-> cliPos.m, text |-> rd.res.text,
                   stages |-> <<>>, failed |-> "", done |-> FALSE]
         IN /\ cliRead' = rd
            /\ IF ~rd.res.ok
               THEN /\ Fatal("io", <<>>)
                    /\ UNCHANGED <<cliRan, cliStage>>
               ELSE /\ cliRan' = StageRun(Append(cliRan, e), "declare", ok)
                    /\ IF ok THEN /\ cliStage' = "declared"
                                  /\ UNCHANGED <<cliPc, cliExit>>
                             ELSE /\ Fatal("declare", <<>>)
                                  /\ UNCHANGED cliStage
    /\ UNCHANGED <<cliArgs, cliPos>>
    /\ UNCHANGED notCli

\* run_module whose eval stage goes on to the await stage whatever eval returned.
CliModuleEvalUnchecked ==
    /\ cliPc = "run" /\ cliStage = "declared"
    /\ \E ok \in BOOLEAN :
         /\ cliRan' = StageRun(cliRan, "eval", ok)
         /\ cliStage' = "evaluated"
         /\ UNCHANGED <<cliPc, cliExit>>
    /\ UNCHANGED <<cliArgs, cliPos, cliRead>>
    /\ UNCHANGED notCli

\* run_module: module.eval()
CliModuleEval ==
    /\ cliPc = "run" /\ cliStage = "declared"
    /\ \E ok \in BOOLEAN :
         /\ cliRan' = StageRun(cliRan, "eval", ok)
         /\ IF ok THEN /\ cliStage' = "evaluated"
                       /\ UNCHANGED <<cliPc, cliExit>>
                  ELSE /\ Fatal("eval", <<>>)
                       /\ UNCHANGED cliStage
    /\ UNCHANGED <<cliArgs, cliPos, cliRead>>
    /\ UNCHANGED notCli

\* run_module: promise.into_future().await has completed; Ok(()) on success.
CliModuleAwait ==
    /\ cliPc = "run" /\ cliStage = "evaluated"
    /\ \E ok \in BOOLEAN :
         IF ok THEN /\ cliRan' = [StageRun(cliRan, "await", ok) EXCEPT
                                     ![Len(cliRan)].done = TRUE]
                    /\ cliStage' = "none"
                    /\ cliPos' = [cliPos EXCEPT !.m = @ + 1]
                    /\ UNCHANGED <<cliPc, cliExit>>
               ELSE /\ cliRan' = StageRun(cliRan, "await", ok)
                    /\ Fatal("await", <<>>)
                    /\ UNCHANGED <<cliStage, cliPos>>
    /\ UNCHANGED <<cliArgs, cliRead>>
    /\ UNCHANGED notCli

\* `for script in args.script`: get_script, then run_script.
CliScript ==
    /\ cliPc = "run" /\ cliStage = "none" /\ ModulesDone /\ ~ScriptsDone
    /\ \E io \in Io, ev \in EvalResults :
         LET rd == ReadArg(cliArgs.script[cliPos.s], io)
             res == RunScript(ev)
             e == [kind |-> "script", idx |-> cliPos.s, text |-> rd.res.text,
                   ev |-> ev, res |-> res]
         IN /\ cliRead' = rd
            /\ IF ~rd.res.ok
               THEN /\ Fatal("io", <<>>)
                    /\ UNCHANGED <<cliRan, cliPos>>
               ELSE /\ cliRan' = Append(cliRan, e)
                    /\ IF res.ok THEN /\ cliPos' = [cliPos EXCEPT !.s = @ + 1]
                                      /\ UNCHANGED <<cliPc, cliExit>>
                                 ELSE /\ Fatal("script", res.err)
                                      /\ UNCHANGED cliPos
    /\ UNCHANGED <<cliArgs, cliStage>>
    /\ UNCHANGED notCli

\* `if args.repl`: the REPL session, until it ends or fails.
CliRepl ==
    /\ cliPc = "run" /\ cliStage = "none" /\ ScriptsDone /\ ~ReplDone
    /\ cliRan' = Append(cliRan, [kind |-> "repl"])
    /\ \E ok \in BOOLEAN :
         IF ok THEN /\ cliPos' = [cliPos EXCEPT !.r = TRUE]
                    /\ UNCHANGED <<cliPc, cliExit>>
               ELSE /\ Fatal("repl", <<>>)
                    /\ UNCHANGED cliPos
    /\ UNCHANGED <<cliArgs, cliStage, cliRead>>
    /\ UNCHANGED notCli

\* The pairing one position off.
ZipArgShifted(arg, c) == IF c < Len(arg) THEN arg[c + 1] ELSE <<>>

\* args.call.iter().zip(args.arg.iter().chain(repeat(""))): the --arg paired
\* with the c-th --call.
ZipArg(arg, c) == IF c <= Len(arg) THEN arg[c] ELSE <<>>

\* `for (f,a) in ..`: one turn.  json is the Option of the decoded argument.
CliCall ==
    /\ cliPc = "run" /\ cliStage = "none" /\ ReplDone /\ ~CallsDone
    /\ \E out \in {"ok", "call", "tojson"} :
         LET f == cliArgs.call[cliPos.c]
             a == ZipArg(cliArgs.arg, cliPos.c)
             j == JsonParse(a)
             e == [kind |-> "call", idx |-> cliPos.c, f |-> f,
                   json |-> IF a = <<>> THEN <<>> ELSE <<j.v>>]
         IN IF a # <<>> /\ ~j.ok
            THEN /\ Fatal("json", <<>>)
                 /\ UNCHANGED <<cliRan, cliPos>>
            ELSE /\ cliRan' = Append(cliRan, e)
                 /\ IF out = "ok" THEN /\ cliPos' = [cliPos EXCEPT !.c = @ + 1]
                                       /\ UNCHANGED <<cliPc, cliExit>>
                                  ELSE /\ Fatal(out, <<>>)
                                       /\ UNCHANGED cliPos
    /\ UNCHANGED <<cliArgs, cliStage, cliRead>>
    /\ UNCHANGED notCli

\* The end of main: rt.idle().await, Ok(()).
CliFinish ==
    /\ cliPc = "run" /\ cliStage = "none" /\ CallsDone
    /\ cliPc' = "exit"
    /\ cliExit' = [kind |-> "ok", label |-> "", text |-> <<>>]
    /\ UNCHANGED <<cliArgs, cliPos, cliStage, cliRan, cliRead>>
    /\ UNCHANGED notCli

InitCli ==
    /\ AdapterInit
    /\ RestIdle
    /\ ReplIdle
    /\ ScIdle
    /\ cliArgs \in CliArgSets
    /\ cliPc = "start"
    /\ cliPos = [m |-> 1, s |-> 1, r |-> FALSE, c |-> 1]
    /\ cliStage = "none"
    /\ cliRan = <<>>
    /\ cliRead = [n |-> 0]
    /\ cliExit = [kind |-> "none"]

NextCli ==
    \/ CliHelp
    \/ CliSetup
    \/ CliModuleDeclare
    \/ CliModuleEval
    \/ CliModuleAwait
    \/ CliScript
    \/ CliRepl
    \/ CliCall
    \/ CliFinish

\* The CLI driver of examples/demo.rs and examples/repl_async.rs, for every
\* command line and every outcome of reading, evaluating and calling.
SpecCli == InitCli /\ [][NextCli]_vars


\* ===================================== src/run.rs, src/repl.rs: reading the input

\* The characters standard input is made of.
Openers == {"{", "(", "["}
Closers == {"}", ")", "]"}
Quotes == {"\"", "'"}
White == {" ", "\n"}
Alphabet == {"(", "{", "[", ")", "}", "]", "\"", "'", "\\", " ", "\n"}

\* A literal scanned without regard to backslashes.
SkipLiteralNoEscape(s, j, quote) ==
    IF \E k \in j..Len(s) : s[k] = quote
    THEN (CHOOSE k \in j..Len(s) :
            s[k] = quote /\ \A m \in j..(k - 1) : s[m] # quote) + 1
    ELSE Len(s) + 1

\* needs_more_input, the inner loop "Skip string literals": from position j on,
\* the position after the literal opened by `quote`.
RECURSIVE SkipLiteral(_, _, _)
SkipLiteral(s, j, quote) ==
    IF j > Len(s) THEN j
    ELSE IF s[j] = "\\" THEN SkipLiteral(s, j + 2, quote)
    ELSE IF s[j] = quote THEN j + 1
    ELSE SkipLiteral(s, j + 1, quote)

\* needs_more_input, the outer loop from position i on with the balance so far.
\* balance is an i32; it stays within the length of the input.
RECURSIVE Scan(_, _, _)
Scan(s, i, balance) ==
    IF i > Len(s) THEN balance > 0
    ELSE IF s[i] \in Openers THEN Scan(s, i + 1, balance + 1)
    ELSE IF s[i] \in Closers
    THEN IF balance - 1 < 0 THEN FALSE ELSE Scan(s, i + 1, balance - 1)
    ELSE IF s[i] \in Quotes THEN Scan(s, SkipLiteral(s, i + 1, s[i]), balance)
    ELSE Scan(s, i + 1, balance)

\* needs_more_input
NeedsMoreInput(input) == Scan(input, 1, 0)

\* A read that keeps the line as it came.
TrimEndNone(s) == s

\* str::trim_end
TrimEnd(s) ==
    LET k == CHOOSE k \in 0..Len(s) :
                /\ k = 0 \/ s[k] \notin White
                /\ \A j \in (k + 1)..Len(s) : s[j] \in White
    IN SubSeq(s, 1, k)

\* BufReader::read_line: how many characters it takes, the newline included; all
\* that is left when there is no newline, nothing at the end of input.
LineLen(in) ==
    IF \E k \in 1..Len(in) : in[k] = "\n"
    THEN CHOOSE k \in 1..Len(in) : in[k] = "\n" /\ \A m \in 1..(k - 1) : in[m] # "\n"
    ELSE Len(in)

\* lines.join("\n")
RECURSIVE Join(_)
Join(lines) ==
    IF lines = <<>> THEN <<>>
    ELSE IF Len(lines) = 1 THEN lines[1]
    ELSE lines[1] \o <<"\n">> \o Join(Tail(lines))

\* read_multiline_input: the prompt before the next line
Prompt(lines) == IF lines = <<>> THEN ">>> " ELSE "... "

\* At the end of input read_line keeps yielding the empty line and a call that
\* still needs more goes round for ever: it is followed for one such line.
AtEndAgain ==
    IF replIn # <<>> \/ replRaw = <<>> THEN FALSE ELSE replRaw[Len(replRaw)] = <<>>

\* read_multiline_input, one turn of its loop: prompt, read_line, trim_end, push,
\* join, needs_more_input; the call returns full_input when no more is needed.
ReplReadLine ==
    /\ ~AtEndAgain
    /\ LET n == LineLen(replIn)
           buffer == SubSeq(replIn, 1, n)
           lines == Append(replLines, TrimEnd(buffer))
           raw == Append(replRaw, buffer)
           prompts == Append(replPrompts, Prompt(replLines))
           full == Join(lines)
           more == NeedsMoreInput(full)
       IN /\ replIn' = SubSeq(replIn, n + 1, Len(replIn))
          /\ replScan' = [n |-> 1, s |-> full, r |-> more]
          /\ IF more
             THEN /\ replLines' = lines
                  /\ replRaw' = raw
                  /\ replPrompts' = prompts
                  /\ UNCHANGED replRet
             ELSE /\ replLines' = <<>>
                  /\ replRaw' = <<>>
                  /\ replPrompts' = <<>>
                  /\ replRet' = [n |-> 1, text |-> full, raw |-> raw,
                                 prompts |-> prompts]
    /\ UNCHANGED notRepl

\* Every text of at most MaxInput characters.
Texts == SeqsUpTo(Alphabet, MaxInput)

InitRepl ==
    /\ AdapterInit
    /\ RestIdle
    /\ CliIdle
    /\ ScIdle
    /\ replIn \in Texts
    /\ replLines = <<>>
    /\ replRaw = <<>>
    /\ replPrompts = <<>>
    /\ replScan = [n |-> 0]
    /\ replRet = [n |-> 0]

NextRepl ==
    \/ ReplReadLine

\* The REPL of src/run.rs and src/repl.rs reading every input text.
SpecRepl == InitRepl /\ [][NextRepl]_vars


\* ======== examples/channel.rs, examples/promise_channel.rs, examples/async_macro.rs
\* A text is a sequence of pieces.

\* The values a script passes to send: two strings and a number.
JsVals == {[t |-> "string", s |-> <<"Hello from JS">>],
           [t |-> "string", s |-> <<"bye">>],
           [t |-> "int", s |-> <<"1">>]}

\* A conversion that hands over the quoted form of the string.
FromJsQuoted(v) ==
    IF v.t = "string" THEN [ok |-> TRUE, s |-> <<"\"">> \o v.s \o <<"\"">>]
                      ELSE [ok |-> FALSE, s |-> <<>>]

\* The closure parameter `msg: String`: the engine converts the argument, a JS
\* string gives its text, any other value is a type error thrown to the script.
FromJs(v) ==
    IF v.t = "string" THEN [ok |-> TRUE, s |-> v.s]
                      ELSE [ok |-> FALSE, s |-> <<>>]

\* channel.rs, script statement send(v): the closure runs inside the call,
\* tx.send(msg) on the std::sync::mpsc queue whose receiver main holds.  An
\* exception ends eval; main prints it and returns the error.
ChSend ==
    /\ scProg = "channel" /\ scPc = "eval" /\ scIp <= Len(scScript)
    /\ LET c == FromJs(scScript[scIp])
           r == UnboundedSend(scQ, TRUE, c.s)
       IN IF c.ok /\ r.ok
          THEN /\ scQ' = r.q
               /\ scIp' = scIp + 1
               /\ UNCHANGED <<scPc, scOut>>
          ELSE /\ scPc' = "error"
               /\ scOut' = Append(scOut, <<"exception">>)
               /\ UNCHANGED <<scQ, scIp>>
    /\ UNCHANGED <<scProg, scScript, scTasks, scJobs, scProm, scGot>>
    /\ UNCHANGED notSc

\* channel.rs, after eval: rx.recv() blocks until the queue holds a message (the
\* sender lives in the closure, so the queue never closes).
ChRecv ==
    /\ scProg = "channel" /\ scPc = "eval" /\ scIp > Len(scScript)
    /\ scQ # <<>>
    /\ scGot' = <<Head(scQ)>>
    /\ scQ' = Tail(scQ)
    /\ scPc' = "done"
    /\ UNCHANGED <<scProg, scScript, scIp, scTasks, scJobs, scProm, scOut>>
    /\ UNCHANGED notSc

\* promise_channel.rs, script statement send(v): the closure makes a promise and
\* spawns the future that will send.  An exception ends eval; main prints it and
\* goes on.
PcSend ==
    /\ scProg = "promise_channel" /\ scPc = "eval" /\ scIp <= Len(scScript)
    /\ LET c == FromJs(scScript[scIp])
       IN IF c.ok
          THEN /\ scTasks' = Append(scTasks, [f |-> "send", arg |-> c.s])
               /\ scIp' = scIp + 1
               /\ UNCHANGED scOut
          ELSE /\ scIp' = Len(scScript) + 1
               /\ scOut' = Append(scOut, <<"exception">>)
               /\ UNCHANGED scTasks
    /\ UNCHANGED <<scProg, scScript, scPc, scQ, scJobs, scProm, scGot>>
    /\ UNCHANGED notSc

\* promise_channel.rs, after eval: the first poll of rx.recv().await.  No spawned
\* future has been polled yet, the queue is empty: the block is pending and the
\* engine turns to the spawned futures.
PcRecvPoll ==
    /\ scProg = "promise_channel" /\ scPc = "eval" /\ scIp > Len(scScript)
    /\ scPc' = "recv"
    /\ UNCHANGED <<scProg, scScript, scIp, scQ, scTasks, scJobs, scProm, scOut, scGot>>
    /\ UNCHANGED notSc

\* promise_channel.rs, the spawned future: tx.send(msg).await, then resolve
\* (reject on a closed queue); it waits while the queue is full.
PcDrive ==
    /\ scProg = "promise_channel" /\ scPc \in {"recv", "idle"} /\ scTasks # <<>>
    /\ LET r == TrySend(scQ, PcCap, scGot = <<>>, Head(scTasks).arg)
       IN /\ r.fail # "full"
          /\ scQ' = r.q
          /\ scProm' = [scProm EXCEPT !.p =
                          Append(@, IF r.fail = "none" THEN "Send OK" ELSE "Send Err")]
    /\ scTasks' = Tail(scTasks)
    /\ UNCHANGED <<scProg, scScript, scPc, scIp, scJobs, scOut, scGot>>
    /\ UNCHANGED notSc

\* promise_channel.rs: rx.recv().await is woken with a message; the block ends
\* (rx is dropped with it) and main goes on to rt.idle().
PcRecvWake ==
    /\ scProg = "promise_channel" /\ scPc = "recv" /\ scQ # <<>>
    /\ scGot' = <<Head(scQ)>>
    /\ scQ' = <<>>
    /\ scOut' = Append(scOut, <<"RX >> Some(\"">> \o Head(scQ) \o <<"\")">>)
    /\ scPc' = "idle"
    /\ UNCHANGED <<scProg, scScript, scIp, scTasks, scJobs, scProm>>
    /\ UNCHANGED notSc

\* rt.idle() that returns as soon as no promise job is pending.
IdleQuietJobsOnly == scJobs = <<>>

\* rt.idle() returns when neither a spawned future nor a promise job is left.
IdleQuiet == scTasks = <<>> /\ scJobs = <<>>

\* The end of main: rt.idle().await has returned.
ScDone ==
    /\ scProg \in {"promise_channel", "async_macro"} /\ scPc = "idle"
    /\ IdleQuiet
    /\ scPc' = "done"
    /\ UNCHANGED <<scProg, scScript, scIp, scQ, scTasks, scJobs, scProm, scOut, scGot>>
    /\ UNCHANGED notSc

\* async_macro.rs: fetch_data, process_data, double, zark
FetchData == <<"Hello from Rust async">>
ProcessData(input) == <<"Processed: ">> \o input
DoubleFn(i) == i * 2
Zark == <<"ZARK!">>

\* async_macro.rs, the module body, statement by statement: two prints, then
\* double(99).then(..), then fetchData().then(..).then(..); an async function
\* called from the script is a future spawned on the engine.
AmStatement ==
    /\ scProg = "async_macro" /\ scPc = "eval" /\ scIp <= 4
    /\ scOut' = IF scIp = 1 THEN Append(scOut, <<"ASYNC">>)
                ELSE IF scIp = 2 THEN Append(scOut, Zark)
                ELSE scOut
    /\ scTasks' = IF scIp = 3 THEN Append(scTasks, [f |-> "double", arg |-> 99])
                  ELSE IF scIp = 4 THEN Append(scTasks, [f |-> "fetchData", arg |-> <<>>])
                  ELSE scTasks
    /\ scIp' = scIp + 1
    /\ UNCHANGED <<scProg, scScript, scPc, scQ, scJobs, scProm, scGot>>
    /\ UNCHANGED notSc

\* async_macro.rs: the module's promise is complete, the async_with block
\* returns and main goes on to rt.idle().
AmReturn ==
    /\ scProg = "async_macro" /\ scPc = "eval" /\ scIp > 4
    /\ scPc' = "idle"
    /\ UNCHANGED <<scProg, scScript, scIp, scQ, scTasks, scJobs, scProm, scOut, scGot>>
    /\ UNCHANGED notSc

\* The engine polls a spawned future: the Rust function runs and its promise is
\* resolved, which queues the job of the reaction registered on it.
AmPoll ==
    /\ scProg = "async_macro" /\ scPc = "idle" /\ scTasks # <<>>
    /\ LET t == Head(scTasks)
       IN IF t.f = "double"
          THEN /\ scJobs' = Append(scJobs, [cb |-> "double.then", v |-> DoubleFn(t.arg)])
               /\ UNCHANGED scProm
          ELSE IF t.f = "fetchData"
          THEN /\ scJobs' = Append(scJobs, [cb |-> "fetchData.then", v |-> FetchData])
               /\ UNCHANGED scProm
          ELSE /\ scProm' = [scProm EXCEPT !.p = <<ProcessData(t.arg)>>]
               /\ scJobs' = IF scProm.adopt
                            THEN Append(scJobs, [cb |-> "forward", v |-> ProcessData(t.arg)])
                            ELSE scJobs
    /\ scTasks' = Tail(scTasks)
    /\ UNCHANGED <<scProg, scScript, scPc, scIp, scQ, scOut, scGot>>
    /\ UNCHANGED notSc

\* The engine runs the oldest promise job: a callback of the script, or a step
\* of the chain (the promise processData returned is adopted by the promise of
\* the first `then`, whose fulfilment starts the second `then`).
AmJob ==
    /\ scProg = "async_macro" /\ scPc = "idle" /\ scJobs # <<>>
    /\ LET j == Head(scJobs)
           rest == Tail(scJobs)
       IN IF j.cb = "double.then"
          THEN /\ scOut' = Append(scOut, <<"Double: ", j.v>>)
               /\ scJobs' = rest
               /\ UNCHANGED <<scTasks, scProm>>
          ELSE IF j.cb = "fetchData.then"
          THEN /\ scOut' = Append(scOut, j.v)
               /\ scTasks' = Append(scTasks, [f |-> "processData", arg |-> j.v])
               /\ scJobs' = Append(rest, [cb |-> "adopt", v |-> <<>>])
               /\ UNCHANGED scProm
          ELSE IF j.cb = "adopt"
          THEN /\ scProm' = [scProm EXCEPT !.adopt = TRUE]
               /\ scJobs' = IF scProm.p # <<>>
                            THEN Append(rest, [cb |-> "forward", v |-> scProm.p[1]])
                            ELSE rest
               /\ UNCHANGED <<scTasks, scOut>>
          ELSE IF j.cb = "forward"
          THEN /\ scJobs' = Append(rest, [cb |-> "then.then", v |-> j.v])
               /\ UNCHANGED <<scTasks, scProm, scOut>>
          ELSE /\ scOut' = Append(scOut, j.v)
               /\ scJobs' = rest
               /\ UNCHANGED <<scTasks, scProm>>
    /\ UNCHANGED <<scProg, scScript, scPc, scIp, scQ, scGot>>
    /\ UNCHANGED notSc

InitScen ==
    /\ AdapterInit
    /\ RestIdle
    /\ CliIdle
    /\ ReplIdle
    /\ scProg \in {"channel", "promise_channel", "async_macro"}
    /\ scScript \in (IF scProg = "async_macro" THEN {<<>>}
                     ELSE SeqsUpTo(JsVals, MaxSends))
    /\ scPc = "eval"
    /\ scIp = 1
    /\ scQ = <<>>
    /\ scTasks = <<>>
    /\ scJobs = <<>>
    /\ scProm = [p |-> <<>>, adopt |-> FALSE]
    /\ scOut = <<>>
    /\ scGot = <<>>
    /\ resolveGone = FALSE
    /\ waitRes = [kind |-> "none", v |-> 0]

NextScen ==
    \/ ChSend
    \/ ChRecv
    \/ PcSend
    \/ PcRecvPoll
    \/ PcDrive
    \/ PcRecvWake
    \/ ScDone
    \/ AmStatement
    \/ AmReturn
    \/ AmPoll
    \/ AmJob

\* The example programs channel.rs, promise_channel.rs and async_macro.rs, each
\* run on its own, the channel examples with every script of send statements.
SpecScen == InitScen /\ [][NextScen]_vars

\* The same with the scheduling the host gives: a step that can be taken is
\* taken (the main thread runs, the engine polls what it was handed).
SpecScenFair == SpecScen /\ WF_vars(NextScen)


\* ============== examples/async_channel.rs, async_channel_macro.rs, mqtt.rs: the
\* final wait of main on the one-shot signal behind `resolve`

\* script: resolve(v), while the closure is still a global
ScriptResolveLive ==
    /\ ~resolveGone
    /\ ScriptResolve

\* The script removes the global `resolve` (delete, or another value assigned):
\* the engine frees the closure and with it the Mutex<Option<Sender>>; a sender
\* still in it is dropped unused.
ScriptDropResolve ==
    /\ mode = "script" /\ ~blocked /\ cur = 0
    /\ ~resolveGone
    /\ resolveGone' = TRUE
    /\ slot' = [slot EXCEPT !["resolve"] = FALSE]
    /\ UNCHANGED <<waitRes, rxAlive, delivered>>
    /\ UNCHANGED <<engineVars, outVars, inVars, exVars, cliVars, replVars, scVars, restVars>>

\* main: the async_with block has returned Ok and rt.idle().await has returned,
\* every spawned future having completed; no script runs from here on.
MainIdle ==
    /\ mode = "drive" /\ ~blocked /\ cur = 0 /\ ready = <<>>
    /\ \A i \in 1..Len(inv) : inv[i].st \notin {"spawned", "locked", "parked"}
    /\ mode' = "wait"
    /\ UNCHANGED <<blocked, cur, inv, ready, held>>
    /\ UNCHANGED <<outVars, inVars, oneVars, exVars, progVars>>

\* oneshot::Receiver polled: the value if one was sent, an error once the sender
\* is gone without having sent, else pending.
OneshotRecvPoll(got, senderGone) ==
    IF got # <<>> THEN [r |-> "value", v |-> Head(got)]
    ELSE IF senderGone THEN [r |-> "closed", v |-> 0]
    ELSE [r |-> "pending", v |-> 0]

\* A wait on the signal alone.
TimerNever == FALSE

\* tokio::time::timeout(Duration::from_secs(2), ..): the deadline passes.
TimerArmed == TRUE

\* main, the match on the result of timeout(..).await
WaitOutcome(r) ==
    IF r.r = "value" THEN [kind |-> "msg", v |-> r.v]
    ELSE IF r.r = "closed" THEN [kind |-> "Oneshot Err", v |-> 0]
    ELSE [kind |-> "Timeout", v |-> 0]

\* timeout(..).await, first poll: the receiver is polled before the deadline.
WaitPoll ==
    /\ mode = "wait" /\ waitRes.kind = "none"
    /\ LET r == OneshotRecvPoll(delivered["resolve"],
                                resolveGone /\ delivered["resolve"] = <<>>)
       IN IF r.r = "pending"
          THEN /\ waitRes' = [kind |-> "sleeping", v |-> 0]
               /\ UNCHANGED mode
          ELSE /\ waitRes' = WaitOutcome(r)
               /\ mode' = "done"
    /\ UNCHANGED <<blocked, cur, inv, ready, held, resolveGone>>
    /\ UNCHANGED <<outVars, inVars, oneVars, exVars, cliVars, replVars, scVars, restVars>>

\* timeout(..).await: nothing can settle the signal any more, the deadline ends
\* the wait.
WaitElapsed ==
    /\ mode = "wait" /\ waitRes.kind = "sleeping"
    /\ TimerArmed
    /\ waitRes' = WaitOutcome([r |-> "elapsed", v |-> 0])
    /\ mode' = "done"
    /\ UNCHANGED <<blocked, cur, inv, ready, held, resolveGone>>
    /\ UNCHANGED <<outVars, inVars, oneVars, exVars, cliVars, replVars, scVars, restVars>>

NextWait ==
    \/ ScriptResolveLive
    \/ ScriptDropResolve
    \/ ScriptRecv
    \/ ScriptYield
    \/ RunJob
    \/ PollLock
    \/ RxRecv
    \/ HostSend
    \/ OneLock
    \/ ResolveFire
    \/ MainIdle
    \/ WaitPoll
    \/ WaitElapsed

\* The script of async_channel.rs using `resolve` and `msg_rx` (the closure of
\* register_rx_channel written out) with the host's sender task, then main's wait
\* on the signal.
SpecWait == Init /\ [][NextWait]_vars

\* The same with the host's scheduling: the wait is polled, the timer runs.
SpecWaitFair == SpecWait /\ WF_vars(WaitPoll) /\ WF_vars(WaitElapsed)


\* ====================================================== src/run.rs: call_fn
\* The path is a sequence of characters, a property name a sequence of characters,
\* an object the sequence of property names that leads to it from the globals.

PathChars == {"a", "b", "."}

\* str::split("."): the pieces between the dots; one more piece than dots, the
\* empty text gives one empty piece.
RECURSIVE Split(_, _)
Split(text, piece) ==
    IF text = <<>> THEN <<piece>>
    ELSE IF Head(text) = "." THEN <<piece>> \o Split(Tail(text), <<>>)
    ELSE Split(Tail(text), Append(piece, Head(text)))

Kinds == {"undefined", "number", "object", "function"}

\* Only plain objects pass the conversion.
IsObjectPlain(k) == k = "object"

\* get::<_, Object>: the conversion to Object succeeds for every value of object
\* type, functions included.
IsObject(k) == k \in {"object", "function"}

\* The globals call_fn may find: `a` of any kind, with properties a.a and a.b
\* when it can have any, and `b` without properties of its own.
Envs ==
    {e \in [a : Kinds, aa : Kinds, ab : Kinds, b : Kinds \ {"object"}] :
        ~IsObject(e.a) => (e.aa = "undefined" /\ e.ab = "undefined")}

\* obj.get(p): the kind of the value of property p of object obj.
GetProp(env, obj, p) ==
    IF obj = <<>>
    THEN (IF p = <<"a">> THEN env.a ELSE IF p = <<"b">> THEN env.b ELSE "undefined")
    ELSE IF obj = << <<"a">> >>
    THEN (IF p = <<"a">> THEN env.aa ELSE IF p = <<"b">> THEN env.ab ELSE "undefined")
    ELSE "undefined"

\* The kind of object obj itself; the globals are a plain object.
KindOf(env, obj) ==
    IF obj = <<>> THEN "object"
    ELSE GetProp(env, SubSeq(obj, 1, Len(obj) - 1), obj[Len(obj)])

\* `for p in path.split(".")`: one turn, `obj = obj.get::<_, Object>(p).map_err(..)?`
CallFnSegment ==
    /\ cfPc = "loop" /\ cfSegs # <<>>
    /\ LET seg == Head(cfSegs)
       IN IF IsObject(GetProp(cfEnv, cfObj, seg))
          THEN /\ cfObj' = Append(cfObj, seg)
               /\ cfSegs' = Tail(cfSegs)
               /\ UNCHANGED <<cfPc, cfRet>>
          ELSE /\ cfRet' = [kind |-> "err",
                            text |-> <<"Invalid Path: ">> \o seg \o <<" [", "e", "]">>]
               /\ cfPc' = "done"
               /\ UNCHANGED <<cfObj, cfSegs>>
    /\ UNCHANGED <<cfEnv, cfPath, cfArgs, cfLog>>
    /\ UNCHANGED notCall

\* After the loop: obj.as_function().ok_or(..)?.call(args)?; the function called
\* returns a value or throws.
CallFnInvoke ==
    /\ cfPc = "loop" /\ cfSegs = <<>>
    /\ IF KindOf(cfEnv, cfObj) = "function"
       THEN /\ cfLog' = Append(cfLog, [fn |-> cfObj, args |-> cfArgs])
            /\ \E out \in {"value", "exception"} :
                 cfRet' = IF out = "value" THEN [kind |-> "ok", text |-> <<"value">>]
                          ELSE [kind |-> "err", text |-> <<"exception">>]
       ELSE /\ cfRet' = [kind |-> "err", text |-> cfPath \o <<" not a function">>]
            /\ UNCHANGED cfLog
    /\ cfPc' = "done"
    /\ UNCHANGED <<cfEnv, cfPath, cfArgs, cfSegs, cfObj>>
    /\ UNCHANGED notCall

\* call_fn(ctx, path, args) is entered: `let mut obj = ctx.globals()`.
InitCall ==
    /\ AdapterInit
    /\ DemoIdle
    /\ CliIdle
    /\ ReplIdle
    /\ ScIdle
    /\ cfEnv \in Envs
    /\ cfPath \in SeqsUpTo(PathChars, MaxPath)
    /\ cfArgs \in {"unit", "json"}
    /\ cfSegs = Split(cfPath, <<>>)
    /\ cfObj = <<>>
    /\ cfPc = "loop"
    /\ cfLog = <<>>
    /\ cfRet = [kind |-> "none", text |-> <<>>]
    /\ cliMade = {}
    /\ AsyncIdle
    /\ LoopIdle

NextCall ==
    \/ CallFnSegment
    \/ CallFnInvoke

\* call_fn on every path of up to MaxPath characters, in every set of globals.
SpecCall == InitCall /\ [][NextCall]_vars


\* ====================================================== examples/async.rs
\* A statement is print(text) or delay(1, () => print(text)).

Stmts == {[op |-> "print", text |-> "start"],
          [op |-> "print", text |-> "after"],
          [op |-> "delay", text |-> "delayed"]}

\* async_with polled for the first time: the body is entered, `*some_var_ref +=
\* 1`, print and delay become globals, eval starts.
AsBody ==
    /\ asPc = "start"
    /\ asVar' = asVar + 1
    /\ asBody' = asBody + 1
    /\ asPc' = "eval"
    /\ UNCHANGED <<asScript, asIp, asTasks, asOut>>
    /\ UNCHANGED notAsync

\* eval, one statement of the script: print prints; delay, an Async function,
\* hands its future to the engine and returns a promise.
AsStatement ==
    /\ asPc = "eval" /\ asIp <= Len(asScript)
    /\ LET st == asScript[asIp]
       IN IF st.op = "print"
          THEN /\ asOut' = Append(asOut, [text |-> st.text, cb |-> FALSE])
               /\ UNCHANGED asTasks
          ELSE /\ asTasks' = Append(asTasks, [text |-> st.text, st |-> "spawned"])
               /\ UNCHANGED asOut
    /\ asIp' = asIp + 1
    /\ UNCHANGED <<asScript, asPc, asVar, asBody>>
    /\ UNCHANGED notAsync

\* eval has returned: the body is complete; the engine may poll spawned futures
\* before the poll of async_with ends.
AsBodyEnd ==
    /\ asPc = "eval" /\ asIp > Len(asScript)
    /\ asPc' = "drive"
    /\ UNCHANGED <<asScript, asIp, asVar, asBody, asTasks, asOut>>
    /\ UNCHANGED notAsync

\* An engine that polls a spawned future as soon as it exists.
AsPollAnytime == TRUE

\* Spawned futures are polled by the engine's driver: inside the poll of
\* async_with once the body's own future has been polled, and in rt.idle().
AsPollAllowed == asPc \in {"drive", "idle"}

\* The engine polls a future of delay for the first time: it begins
\* tokio::time::sleep and is pending.
AsDelayPoll ==
    /\ AsPollAllowed
    /\ \E k \in 1..Len(asTasks) :
         /\ asTasks[k].st = "spawned"
         /\ \A j \in 1..(k - 1) : asTasks[j].st # "spawned"
         /\ asTasks' = [asTasks EXCEPT ![k].st = "sleeping"]
    /\ UNCHANGED <<asScript, asPc, asIp, asVar, asBody, asOut>>
    /\ UNCHANGED notAsync

\* The sleep of a future is over: its waker is called.
AsTimer ==
    /\ \E k \in 1..Len(asTasks) :
         /\ asTasks[k].st = "sleeping"
         /\ asTasks' = [asTasks EXCEPT ![k].st = "woken"]
    /\ UNCHANGED <<asScript, asPc, asIp, asVar, asBody, asOut>>
    /\ UNCHANGED notAsync

\* The engine polls a woken future: `let _ = cb.call(())`, the callback prints,
\* the future is complete.
AsDelayWake ==
    /\ AsPollAllowed
    /\ \E k \in 1..Len(asTasks) :
         /\ asTasks[k].st = "woken"
         /\ asOut' = Append(asOut, [text |-> asTasks[k].text, cb |-> TRUE])
         /\ asTasks' = SubSeq(asTasks, 1, k - 1) \o SubSeq(asTasks, k + 1, Len(asTasks))
    /\ UNCHANGED <<asScript, asPc, asIp, asVar, asBody>>
    /\ UNCHANGED notAsync

\* async_with(..).await returns.
AsReturn ==
    /\ asPc = "drive"
    /\ asPc' = "assert"
    /\ UNCHANGED <<asScript, asIp, asVar, asBody, asTasks, asOut>>
    /\ UNCHANGED notAsync

\* assert_eq!(some_var, 2), then rt.idle() is awaited.
AsAssert ==
    /\ asPc = "assert"
    /\ asPc' = IF asVar = 2 THEN "idle" ELSE "panic"
    /\ UNCHANGED <<asScript, asIp, asVar, asBody, asTasks, asOut>>
    /\ UNCHANGED notAsync

\* rt.idle().await returns: no spawned future is left.
AsIdleDone ==
    /\ asPc = "idle" /\ asTasks = <<>>
    /\ asPc' = "done"
    /\ UNCHANGED <<asScript, asIp, asVar, asBody, asTasks, asOut>>
    /\ UNCHANGED notAsync

InitAsync ==
    /\ AdapterInit
    /\ DemoIdle
    /\ CliIdle
    /\ ReplIdle
    /\ ScIdle
    /\ CallIdle
    /\ cliMade = {}
    /\ asScript \in SeqsUpTo(Stmts, MaxStmts)
    /\ asPc = "start"
    /\ asIp = 1
    /\ asVar = 1
    /\ asBody = 0
    /\ asTasks = <<>>
    /\ asOut = <<>>
    /\ LoopIdle

NextAsync ==
    \/ AsBody
    \/ AsStatement
    \/ AsBodyEnd
    \/ AsDelayPoll
    \/ AsTimer
    \/ AsDelayWake
    \/ AsReturn
    \/ AsAssert
    \/ AsIdleDone

\* run() of async.rs, with every script of up to MaxStmts statements.
SpecAsync == InitAsync /\ [][NextAsync]_vars


\* ================= src/run.rs, src/repl.rs: the REPL sessions (repl, repl_rustyline)
\* What is typed is a text; the stdin REPL reads it with read_multiline_input
\* (ReplReadLine above), the rustyline REPLs get it line by line.

Variants == {"stdin", "rustyline_async", "rustyline"}
TypedChars == {"(", ")", "1", " ", "\n"}

\* What ctx.eval comes back with in a session: undefined, one of two values, an
\* Error object thrown, some other value thrown.
LoopEvals ==
    {[ok |-> TRUE, v |-> v, ex |-> FALSE, msg |-> <<>>, stack |-> <<>>] :
        v \in {"undefined", "1", "2"}}
    \cup {[ok |-> FALSE, v |-> "", ex |-> TRUE, msg |-> <<"m">>, stack |-> <<"s">>],
          [ok |-> FALSE, v |-> "", ex |-> FALSE, msg |-> <<>>, stack |-> <<>>]}

\* A test that takes every value for a result worth keeping.
IsUndefinedNever(v) == FALSE

\* v.is_undefined()
IsUndefined(v) == v = "undefined"

\* An error arm that hands the error on to the caller.
ErrArmFatal(variant, err) ==
    [ends |-> TRUE,
     report |-> IF variant = "rustyline_async" THEN <<"JS Error: ">> \o err ELSE err]

\* The Err(e) arm of the match on the evaluation: the error is written out
\* (eprintln!("{e}"), in the rustyline_async variant "JS Error: {e}") and the
\* arm ends without leaving the loop.
ErrArm(variant, err) ==
    [ends |-> FALSE,
     report |-> IF variant = "rustyline_async" THEN <<"JS Error: ">> \o err ELSE err]

\* What can follow a result worth keeping: globals().set("_", v)? succeeds or
\* not; in the rustyline_async variant value_to_json(..)? succeeds or not.
Posts(variant) ==
    IF variant = "rustyline_async" THEN {"ok", "set failed", "to json failed"}
    ELSE {"ok", "set failed"}

\* The session ends with `r` as the result of the REPL function.
LoopReturn(kind, cause) ==
    /\ rlPc' = "returned"
    /\ rlRet' = [kind |-> kind, cause |-> cause]

\* `match run_script(ctx.clone(), script).await { Ok(v) => .., Err(e) => .. }`
\* (repl.rs: the same match on ctx.eval with run_script's texts written out).
Evaluate(script, since) ==
    \E ev \in LoopEvals :
        LET res == RunScript(ev)
            keep == res.ok /\ ~IsUndefined(res.v)
        IN \E post \in (IF keep THEN Posts(rlVariant) ELSE {"ok"}) :
             /\ rlLog' = Append(rlLog, [script |-> script, from |-> since,
                                        ev |-> ev, post |-> post])
             /\ IF keep
                THEN /\ rlUnder' = IF post = "set failed" THEN rlUnder ELSE <<res.v>>
                     /\ rlOut' = IF post = "ok"
                                 THEN Append(rlOut, [kind |-> "value", text |-> <<res.v>>])
                                 ELSE rlOut
                     /\ IF post = "ok" THEN UNCHANGED <<rlPc, rlRet>>
                                       ELSE LoopReturn("err", post)
                ELSE IF res.ok
                THEN UNCHANGED <<rlUnder, rlOut, rlPc, rlRet>>
                ELSE LET arm == ErrArm(rlVariant, res.err)
                     IN /\ rlOut' = Append(rlOut, [kind |-> "error", text |-> arm.report])
                        /\ UNCHANGED rlUnder
                        /\ IF arm.ends THEN LoopReturn("err", "script")
                                       ELSE UNCHANGED <<rlPc, rlRet>>

\* repl: `let script = read_multiline_input(&mut reader).await?`, one turn of
\* the loop inside it.
StdinRead ==
    /\ rlVariant = "stdin" /\ rlPc = "loop" /\ replRet.n = 0
    /\ ReplReadLine

\* repl: read_line (or the flush of the prompt) fails, `?` returns the error.
StdinIoError ==
    /\ rlVariant = "stdin" /\ rlPc = "loop" /\ replRet.n = 0
    /\ LoopReturn("err", "io")
    /\ UNCHANGED <<rlVariant, rlLines, rlPrompt, rlSince, rlUnder, rlLog, rlOut>>
    /\ UNCHANGED <<notLoop, replVars>>

\* repl: the rest of the loop body, `if !script.is_empty() { .. }`, then round
\* again.
StdinEval ==
    /\ rlVariant = "stdin" /\ rlPc = "loop" /\ replRet.n = 1
    /\ IF replRet.text # <<>>
       THEN Evaluate(replRet.text, replRet.raw)
       ELSE UNCHANGED <<rlUnder, rlLog, rlOut, rlPc, rlRet>>
    /\ replRet' = [n |-> 0]
    /\ UNCHANGED <<rlVariant, rlLines, rlPrompt, rlSince>>
    /\ UNCHANGED <<replIn, replLines, replRaw, replPrompts, replScan>>
    /\ UNCHANGED notLoop

\* lines.join(sep)
RECURSIVE JoinSep(_, _)
JoinSep(lines, sep) ==
    IF lines = <<>> THEN <<>>
    ELSE IF Len(lines) = 1 THEN lines[1]
    ELSE lines[1] \o <<sep>> \o JoinSep(Tail(lines), sep)

\* The line as the variant stores it and the separator it joins with.
Stored(variant, line) == IF variant = "rustyline_async" THEN TrimEnd(line) ELSE line
Separator(variant) == IF variant = "rustyline_async" THEN " " ELSE "\n"

\* repl_rustyline, a line was entered: push, join, needs_more_input; either the
\* continuation prompt, or the evaluation of a script that is not empty (with
\* lines.clear() after it) and the primary prompt.
RlLine ==
    /\ rlVariant # "stdin" /\ rlPc = "loop"
    /\ \E k \in 1..Len(replIn) : replIn[k] = "\n"
    /\ LET n == LineLen(replIn)
           line == SubSeq(replIn, 1, n - 1)
           lines == Append(rlLines, Stored(rlVariant, line))
           script == JoinSep(lines, Separator(rlVariant))
       IN /\ replIn' = SubSeq(replIn, n + 1, Len(replIn))
          /\ IF NeedsMoreInput(script)
             THEN /\ rlLines' = lines
                  /\ rlSince' = Append(rlSince, line)
                  /\ rlPrompt' = "... "
                  /\ UNCHANGED <<rlUnder, rlLog, rlOut, rlPc, rlRet>>
             ELSE IF script # <<>>
             THEN /\ Evaluate(script, Append(rlSince, line))
                  /\ rlLines' = <<>>
                  /\ rlSince' = <<>>
                  /\ rlPrompt' = ">>> "
             ELSE /\ rlLines' = lines
                  /\ rlSince' = Append(rlSince, line)
                  /\ rlPrompt' = ">>> "
                  /\ UNCHANGED <<rlUnder, rlLog, rlOut, rlPc, rlRet>>
    /\ UNCHANGED rlVariant
    /\ UNCHANGED <<replLines, replRaw, replPrompts, replScan, replRet>>
    /\ UNCHANGED notLoop

\* A readline error handed on to the caller.
BreakRetErr(e) == IF e = "err" THEN [kind |-> "err", cause |-> e]
                               ELSE [kind |-> "ok", cause |-> e]

\* The three arms that `break`: after the loop the function returns Ok(()).
BreakRet(e) == [kind |-> "ok", cause |-> e]

\* repl_rustyline: end-of-file, interrupt or a readline error; a notice is
\* written, the loop is left.
RlBreak ==
    /\ rlVariant # "stdin" /\ rlPc = "loop"
    /\ \E e \in {"eof", "int", "err"} :
         /\ rlOut' = Append(rlOut, [kind |-> "notice", text |-> <<e>>])
         /\ rlPc' = "returned"
         /\ rlRet' = BreakRet(e)
    /\ UNCHANGED <<rlVariant, rlLines, rlPrompt, rlSince, rlUnder, rlLog>>
    /\ UNCHANGED <<notLoop, replVars>>

InitLoop ==
    /\ AdapterInit
    /\ DemoIdle
    /\ CliIdle
    /\ ScIdle
    /\ CallIdle
    /\ cliMade = {}
    /\ AsyncIdle
    /\ replIn \in SeqsUpTo(TypedChars, MaxTyped)
    /\ replLines = <<>>
    /\ replRaw = <<>>
    /\ replPrompts = <<>>
    /\ replScan = [n |-> 0]
    /\ replRet = [n |-> 0]
    /\ rlVariant \in Variants
    /\ rlLines = <<>>
    /\ rlPrompt = ">>> "
    /\ rlSince = <<>>
    /\ rlUnder = <<>>
    /\ rlLog = <<>>
    /\ rlOut = <<>>
    /\ rlPc = "loop"
    /\ rlRet = [kind |-> "none", cause |-> ""]

NextLoop ==
    \/ StdinRead
    \/ StdinIoError
    \/ StdinEval
    \/ RlLine
    \/ RlBreak

\* A REPL session of each of the three REPL functions, on every text of up to
\* MaxTyped characters.
SpecLoop == InitLoop /\ [][NextLoop]_vars


\* ====================================== examples/demo.rs, the echo task
\* main spawns a task that answers every message the script passes to `send`
\* with a reply the script takes with `recv`.  The queue behind `send` is outQ,
\* the task holds its receiver; the queue behind `recv` is inQ, the task holds
\* its sender.  A reply is a Vec<u8>: a sequence of byte values.

\* Display for usize: the decimal digits of n, most significant first.
RECURSIVE Decimal(_)
Decimal(n) ==
    IF n < 10 THEN <<n>> ELSE Append(Decimal(n \div 10), n % 10)

DigitChar(d) == <<"0", "1", "2", "3", "4", "5", "6", "7", "8", "9">>[d + 1]

\* A task that numbers every reply alike.
EchoFormatFixed(n) == <<"M", "S", "G", " ", "[", "0", "]">>

\* format!("MSG [{}]", n)
EchoFormat(n) ==
    LET d == Decimal(n)
    IN <<"M", "S", "G", " ", "[">> \o [i \in 1..Len(d) |-> DigitChar(d[i])] \o <<"]">>

\* The UTF-8 encoding of the characters the task writes: one byte each.
Utf8(c) ==
    CASE c = " " -> 32
      [] c = "G" -> 71
      [] c = "M" -> 77
      [] c = "S" -> 83
      [] c = "[" -> 91
      [] c = "]" -> 93
      [] OTHER -> 48 + (CHOOSE d \in 0..9 : DigitChar(d) = c)

\* str::as_bytes(..).to_vec()
AsBytes(text) == [i \in 1..Len(text) |-> Utf8(text[i])]

\* rx.recv().await returned Some(msg): both lines are printed, the reply is
\* handed to tx2.send, whose result is printed and otherwise ignored, and n is
\* advanced.  A reply that was queued wakes the future parked inside `recv`.
EchoTurn ==
    /\ echoPc = "running"
    /\ LET m == RecvPoll(outQ, sendAlive)
           reply == AsBytes(EchoFormat(echoN))
           r == UnboundedSend(inQ, inRxAlive, reply)
       IN /\ m.r = "some"
          /\ outQ' = m.q
          /\ hostGot' = Append(hostGot, m.v)
          /\ inQ' = r.q
          /\ echoLog' = Append(echoLog, [msg |-> m.v, reply |-> reply, ok |-> r.ok])
          /\ ready' = IF r.ok THEN Woken(ready) ELSE ready
    /\ echoN' = echoN + 1
    /\ UNCHANGED <<mode, blocked, cur, inv, held, outRxAlive>>
    /\ UNCHANGED <<inTxAlive, hostSent, tick, inRxAlive, echoPc, sendAlive>>
    /\ UNCHANGED <<oneVars, exVars, notDemo>>

\* rx.recv().await returned None: the task leaves its loop and ends, and with
\* it the receiver rx and the sender tx2 it had been moved.
EchoStop ==
    /\ echoPc = "running"
    /\ RecvPoll(outQ, sendAlive).r = "none"
    /\ echoPc' = "stopped"
    /\ outRxAlive' = FALSE
    /\ inTxAlive' = FALSE
    /\ ready' = Woken(ready)
    /\ UNCHANGED <<mode, blocked, cur, inv, held, outQ, hostGot>>
    /\ UNCHANGED <<inQ, hostSent, tick, inRxAlive, echoN, echoLog, sendAlive>>
    /\ UNCHANGED <<oneVars, exVars, notDemo>>

\* main returns, after rt.idle() or early with the error of the async_with
\* body: the context and the runtime are dropped, the script runs no more and
\* its futures are polled no more.  The tasks main spawned live on until the
\* tokio runtime is shut down.
DemoEnd ==
    /\ mode = "drive" /\ ~blocked /\ cur = 0
    /\ mode' = "done"
    /\ UNCHANGED <<blocked, cur, inv, ready, held>>
    /\ UNCHANGED <<outVars, inVars, oneVars, exVars, progVars>>

\* The engine frees the function `send`: the sender tx it owned is dropped.
DemoDropTx ==
    /\ mode = "done" /\ sendAlive
    /\ sendAlive' = FALSE
    /\ UNCHANGED <<echoN, echoPc, echoLog>>
    /\ UNCHANGED <<adapterVars, notDemo>>

\* The engine frees the function `recv`: the receiver rx2 it owned is dropped
\* and what is still queued for it is discarded.
DemoDropRx2 ==
    /\ mode = "done" /\ inRxAlive
    /\ inRxAlive' = FALSE
    /\ inQ' = <<>>
    /\ UNCHANGED <<inTxAlive, hostSent, tick>>
    /\ UNCHANGED <<engineVars, outVars, oneVars, exVars, progVars>>

InitDemo ==
    /\ AdapterInit
    /\ CliIdle
    /\ ReplIdle
    /\ ScIdle
    /\ CallIdle
    /\ cliMade = {}
    /\ AsyncIdle
    /\ LoopIdle
    /\ DemoIdle

NextDemo ==
    \/ ScriptSend
    \/ ScriptRecv
    \/ ScriptYield
    \/ RunJob
    \/ PollLock
    \/ TxSend
    \/ RxRecv
    \/ EchoTurn
    \/ EchoStop
    \/ DemoEnd
    \/ DemoDropTx
    \/ DemoDropRx2

\* examples/demo.rs: a script using `send` and `recv` against the echo task.
SpecDemo == InitDemo /\ [][NextDemo]_vars


\* ================================================================ properties

Invs == 1..Len(inv)
OfKind(k) == {i \in Invs : inv[i].kind = k}
IsPrefix(a, b) == Len(a) <= Len(b) /\ \A k \in 1..Len(a) : a[k] = b[k]

\* The invocations of kind k that ended in state st, in invocation order.
Ended(k, st) == SelectSeq(inv, LAMBDA r : r.kind = k /\ r.st = st)
Args(q) == [k \in 1..Len(q) |-> q[k].arg]
Results(q) == [k \in 1..Len(q) |-> q[k].val]

\* The engine has nothing left it could poll.
Quiet == blocked \/ (cur = 0 /\ ready = <<>>)

\* C1: while the host receiver is alive, what the host has taken followed by what
\* is still queued is exactly the values of the completed send invocations in
\* invocation order (and what the host took is always a prefix of them); the
\* values the recv invocations were resolved with, in invocation order, followed
\* by what is still queued are exactly the values the host sent, in its order.
C1_Fifo ==
    /\ outRxAlive => hostGot \o outQ = Args(Ended("send", "resolved"))
    /\ IsPrefix(hostGot, Args(Ended("send", "resolved")))
    /\ Results(Ended("recv", "resolved")) \o inQ = hostSent

C1_Witness ==
    /\ Len(hostGot) = 2 /\ Len(outQ) = 1
    /\ Len(Ended("send", "resolved")) = 3

C1_WitnessRx ==
    /\ Results(Ended("recv", "resolved")) = <<1, 2>>
    /\ Len(hostSent) = 2

\* C2: every invocation of a one-shot adapter after the first one of that adapter
\* ends in an "Already Resolved" exception.
C2_SecondCallThrows ==
    \A i \in Invs :
        (/\ inv[i].kind \in OneShots
         /\ inv[i].st \in {"returned", "thrown"}
         /\ \E j \in 1..(i - 1) : inv[j].kind = inv[i].kind)
        => (inv[i].st = "thrown" /\ inv[i].err = "Already Resolved")

\* C3: a recv invocation made after the sender of the inbound queue was dropped
\* is not pending any more once the engine has nothing left to poll, and if it
\* was rejected it carries "RX Channel Closed".
C3_ClosedRecvSettles ==
    Quiet =>
        \A i \in OfKind("recv") :
            inv[i].late =>
                /\ inv[i].st \in {"resolved", "rejected"}
                /\ inv[i].st = "rejected" => inv[i].err = "RX Channel Closed"

\* C4: the receiver of a one-shot signal is completed with at most one value, and
\* that value is the argument of the first invocation of the adapter.
C4_AtMostOnce ==
    \A h \in OneShots :
        /\ Len(delivered[h]) <= 1
        /\ Len(delivered[h]) = 1 =>
              \E i \in OfKind(h) :
                  /\ \A j \in OfKind(h) : i <= j
                  /\ delivered[h][1] = inv[i].arg

C4_Witness ==
    \E h \in OneShots :
        /\ Len(delivered[h]) = 1
        /\ \E i, j \in OfKind(h) :
              /\ i < j /\ inv[i].arg # inv[j].arg
              /\ inv[i].st = "returned" /\ inv[j].st \in {"returned", "thrown"}

\* C5: the engine thread never blocks on the mutex of an adapter, the recv
\* invocations are resolved with distinct values, and once the host has sent as
\* many values as there are recv invocations none of them stays pending.
C5_SharedRecv ==
    /\ ~blocked
    /\ \A i, j \in OfKind("recv") :
          (i # j /\ inv[i].st = "resolved" /\ inv[j].st = "resolved")
          => inv[i].val # inv[j].val
    /\ (Quiet /\ Len(hostSent) >= Cardinality(OfKind("recv")))
          => \A i \in OfKind("recv") : inv[i].st = "resolved"

\* The message the script is to see for a failure of the primitive.
ErrMsg(k, f) ==
    IF f = "poison" THEN "Mutex Error"
    ELSE IF f = "used" THEN "Already Resolved"
    ELSE IF k = "recv" THEN "RX Channel Closed"
    ELSE "TX Channel Closed"

C6_WitnessClosed ==
    \E i, j \in Invs :
        /\ inv[i].st = "rejected" /\ inv[i].err = "TX Channel Closed"
        /\ inv[j].st = "rejected" /\ inv[j].err = "RX Channel Closed"

RecvSettles(i) ==
    /\ i \in Invs /\ inv[i].kind = "recv"
    /\ inv[i].st \notin {"resolved", "rejected"}
    /\ inv'[i].st \in {"resolved", "rejected"}

\* C8: a recv invocation made on an empty open queue is still an unpolled pending
\* promise for as long as the fragment that made it runs; the script is never
\* blocked inside a call; and a recv invocation settles only in a step that finds
\* a value queued or the sender dropped.
C8_RecvDoesNotBlock ==
    /\ [](\A i \in OfKind("recv") : (inv[i].empty /\ inv[i].live) => inv[i].st = "spawned")
    /\ [](mode = "script" => ~blocked)
    /\ [][\A i \in Ids : RecvSettles(i) => (inQ # <<>> \/ ~inTxAlive)]_vars

C8_Witness ==
    \E i \in OfKind("recv") :
        /\ inv[i].empty /\ inv[i].st = "resolved"
        /\ \E j \in Invs : j > i

\* C9: at most one invocation holds the guard of a handle.
C9_MutualExclusion == \A h \in Locks : Cardinality(held[h]) <= 1

C9_Witness ==
    /\ \E i \in OfKind("recv") : inv[i].st = "parked" /\ held["recv"] = {i}
    /\ \E j \in OfKind("recv") : inv[j].st = "stuck"

\* C10: a failed operation is never dropped silently: a failed adapter invocation
\* ends in an exception, and a failed send of the host sender task is a send to a
\* dropped receiver and is logged.
C10_NothingSwallowed ==
    /\ \A i \in Invs :
          (inv[i].st \in {"resolved", "rejected", "returned", "thrown"}
           /\ inv[i].fail # "none")
          => inv[i].st \in {"rejected", "thrown"}
    /\ \A k \in 1..Len(hostOps) :
          hostOps[k].fail # "none" =>
              (hostOps[k].fail = "closed" /\ hostOps[k].line = "Error Sending Message")

\* ----------------------------------------------------- the CLI driver's claims

\* The driver's log, by kind.
RanOf(k) == SelectSeq(cliRan, LAMBDA e : e.kind = k)

\* An executed item went through without an error; for a script judged by what
\* the engine came back with.
Went(e) ==
    IF e.kind = "module" THEN e.done /\ e.failed = ""
    ELSE IF e.kind = "script" THEN e.ev.ok
    ELSE TRUE

\* The items of a command line in the order main takes them.
Plan ==
    [i \in 1..Len(cliArgs.module) |-> [kind |-> "module", idx |-> i]]
    \o [i \in 1..Len(cliArgs.script) |-> [kind |-> "script", idx |-> i]]
    \o (IF cliArgs.repl THEN <<[kind |-> "repl", idx |-> 1]>> ELSE <<>>)
    \o [i \in 1..Len(cliArgs.call) |-> [kind |-> "call", idx |-> i]]
Tag(e) == [kind |-> e.kind, idx |-> IF e.kind = "repl" THEN 1 ELSE e.idx]
Tags(q) == [k \in 1..Len(q) |-> Tag(q[k])]
PlanSrc(k) ==
    IF Plan[k].kind = "module" THEN cliArgs.module[Plan[k].idx]
    ELSE IF Plan[k].kind = "script" THEN cliArgs.script[Plan[k].idx]
    ELSE <<>>

\* C14: get_script picks the source of the script text by three disjoint cases:
\* the argument "-" gives the whole of standard input, an argument beginning
\* with "@" gives the contents of the file named by the rest of the argument
\* (an error when that source cannot be read), any other argument is the script.
C14_GetScript ==
    cliRead.n > 0 =>
      LET src == cliRead.src
          io == cliRead.io
          res == cliRead.res
      IN IF src = <<"-">>
         THEN /\ res.ok = io.stdinOk
              /\ res.ok => res.text = StdinText
         ELSE IF src # <<>> /\ Head(src) = "@"
         THEN /\ res.ok = (Tail(src) \in io.readable)
              /\ res.ok => res.text = FileText(Tail(src))
         ELSE res.ok /\ res.text = src

C14_Witness ==
    /\ cliRead.n = 2
    /\ cliRead.src = <<"@", "f">> /\ cliRead.res.ok
    /\ cliRead.res.text = <<"#", "f">>
    /\ Len(cliRan) = 2 /\ cliRan[1].text = <<"-", "@">> /\ cliRan[2].text = <<"#", "f">>

C14_WitnessStdin ==
    /\ cliRead.n > 0 /\ cliRead.src = <<"-">> /\ cliRead.res.text = StdinText
    /\ cliRan # <<>> /\ cliRan[Len(cliRan)].text = StdinText

\* C15: run_script hands back Ok with the value when the evaluation went well;
\* otherwise an error made of the exception's message and stack, "-" standing
\* for a missing part, or "JS Error: <e>" when the pending value is no exception
\* object; the driver ends with that error or goes on, it never panics.
C15_RunScript ==
    /\ \A k \in 1..Len(cliRan) :
         cliRan[k].kind = "script" =>
           LET ev == cliRan[k].ev
               res == cliRan[k].res
           IN /\ res.ok = ev.ok
              /\ ev.ok => res.v = ev.v
              /\ (~ev.ok /\ ev.ex) =>
                   res.err = <<IF ev.msg = <<>> THEN "-" ELSE ev.msg[1], "\n",
                               IF ev.stack = <<>> THEN "-" ELSE ev.stack[1]>>
              /\ (~ev.ok /\ ~ev.ex) => res.err = <<"JS Error: ", "e">>
    /\ cliExit.kind \in {"none", "ok", "err"}
    /\ (cliExit.kind = "err" /\ cliExit.label = "script") =>
          cliExit.text = cliRan[Len(cliRan)].res.err

C15_Witness ==
    /\ cliExit.kind = "err" /\ cliExit.label = "script"
    /\ cliExit.text = <<"-", "\n", "s">>

C15_WitnessNoException ==
    /\ cliExit.kind = "err" /\ cliExit.label = "script"
    /\ cliExit.text = <<"JS Error: ", "e">>

\* C16: what the driver has executed is always the first items of the command
\* line in its order, every one before the last having gone through; a read
\* failure on an item ends the run with that item not executed, a module or
\* script error ends it with that item the last one executed; once the run has
\* ended nothing more is executed.
C16_State ==
    /\ Len(cliRan) <= Len(Plan)
    /\ Tags(cliRan) = SubSeq(Plan, 1, Len(cliRan))
    /\ \A k \in 1..(Len(cliRan) - 1) : Went(cliRan[k])
    /\ (cliRead.n > 0 /\ ~cliRead.res.ok) =>
          /\ cliExit.kind = "err" /\ cliExit.label = "io" /\ cliPc = "exit"
          /\ Len(cliRan) < Len(Plan)
          /\ PlanSrc(Len(cliRan) + 1) = cliRead.src
          /\ \A k \in 1..Len(cliRan) : Went(cliRan[k])
    /\ (cliRan # <<>> /\ ~Went(cliRan[Len(cliRan)])
          /\ ~(cliPc = "run" /\ cliStage # "none")) =>
          /\ cliExit.kind = "err" /\ cliPc = "exit"
          /\ cliExit.label \in {"declare", "eval", "await", "script"}
    /\ cliExit.kind = "err" => cliPc = "exit"

C16_FatalErrors ==
    /\ []C16_State
    /\ [][cliPc = "exit" => (cliRan' = cliRan /\ cliPc' = "exit")]_vars

C16_Witness ==
    /\ cliExit.kind = "err" /\ cliExit.label = "script"
    /\ Len(cliRan) = 2 /\ cliRan[1].kind = "module" /\ cliRan[1].done
    /\ cliArgs.repl /\ Len(cliArgs.call) = 2

C16_WitnessRead ==
    /\ cliExit.kind = "err" /\ cliExit.label = "io"
    /\ Len(cliRan) = 1 /\ Len(Plan) = 4

\* C17: the function invocations made are the first --call flags in flag order,
\* one each, and all of them once the run has gone through; the i-th one carries
\* the decoded i-th --arg when that --arg exists and is not empty, and no JSON
\* argument otherwise; --arg values past the last --call take no part.
C17_Calls ==
    LET calls == RanOf("call")
    IN /\ Len(calls) <= Len(cliArgs.call)
       /\ cliExit.kind = "ok" => Len(calls) = Len(cliArgs.call)
       /\ \A k \in 1..Len(calls) :
            /\ calls[k].idx = k
            /\ calls[k].f = cliArgs.call[k]
            /\ IF k <= Len(cliArgs.arg) /\ cliArgs.arg[k] # <<>>
               THEN cliArgs.arg[k] = <<"1">> /\ calls[k].json = <<1>>
               ELSE calls[k].json = <<>>

C17_Witness ==
    /\ cliExit.kind = "ok"
    /\ Len(RanOf("call")) = 2
    /\ cliArgs.arg = << <<"1">> >>

C17_WitnessIgnored ==
    /\ cliExit.kind = "ok"
    /\ Len(RanOf("call")) = 1
    /\ cliArgs.arg = << <<>>, <<"1">> >>

\* C20: run_module starts its stages in the order declare, evaluate, await; a
\* stage that fails is the last one started and the run ends with the error
\* carrying that stage's label; the module counts as run (Ok) only with all three
\* stages started and none failed.
C20_RunModule ==
    \A k \in 1..Len(cliRan) :
      cliRan[k].kind = "module" =>
        LET e == cliRan[k]
        IN /\ e.stages = SubSeq(<<"declare", "eval", "await">>, 1, Len(e.stages))
           /\ e.stages # <<>>
           /\ e.failed # "" =>
                /\ e.stages[Len(e.stages)] = e.failed
                /\ k = Len(cliRan)
                /\ cliExit = [kind |-> "err", label |-> e.failed, text |-> <<>>]
                /\ ~e.done
           /\ e.done => (Len(e.stages) = 3 /\ e.failed = "")
           /\ k < Len(cliRan) => e.done
           /\ (k = Len(cliRan) /\ cliExit.kind = "ok") => e.done

C20_Witness ==
    /\ Len(cliRan) = 2
    /\ cliRan[1].kind = "module" /\ cliRan[1].done
    /\ cliRan[2].kind = "module" /\ cliRan[2].failed = "eval"
    /\ cliExit.label = "eval"

\* C22: started without --script, --module, --call and --repl, the driver ends
\* with the help text as its error; it never creates a runtime, a channel or a
\* task and never runs anything.
C22_NothingToDo ==
    (cliArgs.script = <<>> /\ cliArgs.module = <<>> /\ cliArgs.call = <<>>
        /\ ~cliArgs.repl) =>
       /\ cliMade = {}
       /\ cliRan = <<>>
       /\ cliPc \in {"start", "exit"}
       /\ cliPc = "exit" =>
             /\ cliExit.kind = "err"
             /\ cliExit.text = <<"Usage: ", "demo",
                                 " [--script <script...>] [--module <module...>]",
                                 " [--repl] [--call <call...>] [--arg <arg...>]">>

\* The command line that holds only an --arg.
C22_Witness ==
    /\ cliArgs.script = <<>> /\ cliArgs.module = <<>> /\ cliArgs.call = <<>>
    /\ ~cliArgs.repl /\ cliArgs.arg # <<>>
    /\ cliPc = "exit" /\ cliExit.kind = "err" /\ cliExit.label = "help"


\* The characters of s outside string literals, from position i on; q is the
\* quote of the literal position i lies in, "" outside.
RECURSIVE Outside(_, _, _)
Outside(s, i, q) ==
    IF i > Len(s) THEN <<>>
    ELSE IF q = ""
    THEN IF s[i] \in {"\"", "'"} THEN Outside(s, i + 1, s[i])
         ELSE <<s[i]>> \o Outside(s, i + 1, "")
    ELSE IF s[i] = "\\" THEN Outside(s, i + 2, q)
    ELSE IF s[i] = q THEN Outside(s, i + 1, "")
    ELSE Outside(s, i + 1, q)

\* How many of the first k characters of t lie in S.
CountIn(t, k, S) == Cardinality({j \in 1..k : t[j] \in S})

\* b without its trailing blanks and newlines.
RECURSIVE DropTail(_)
DropTail(b) ==
    IF b = <<>> THEN b
    ELSE IF b[Len(b)] \in {" ", "\n"} THEN DropTail(SubSeq(b, 1, Len(b) - 1))
    ELSE b

\* The buffers read are lines: a newline only at the end of a buffer, and after
\* a buffer that lacks it (the input ended there) only empty buffers.
AreLines(raw) ==
    \A k \in 1..Len(raw) :
      /\ \A j \in 1..(Len(raw[k]) - 1) : raw[k][j] # "\n"
      /\ (raw[k] = <<>> \/ raw[k][Len(raw[k])] # "\n") =>
            \A m \in (k + 1)..Len(raw) : raw[m] = <<>>

Accumulated(raw, k) == Join([j \in 1..k |-> DropTail(raw[j])])
PromptsFor(n) == [k \in 1..n |-> IF k = 1 THEN ">>> " ELSE "... "]

\* C18: needs_more_input(s) is true exactly when, over the characters of s
\* outside quoted literals, no prefix has more closing than opening brackets and
\* the whole has more opening than closing ones, of whatever kind.
C18_NeedsMoreInput ==
    replScan.n > 0 =>
      LET t == Outside(replScan.s, 1, "")
          op == {"{", "(", "["}
          cl == {"}", ")", "]"}
      IN replScan.r =
           (/\ \A k \in 0..Len(t) : CountIn(t, k, cl) <= CountIn(t, k, op)
            /\ CountIn(t, Len(t), op) > CountIn(t, Len(t), cl))

C18_Witness ==
    /\ replScan.n > 0
    /\ replScan.s = <<"\"", "\\", "\"", "(">>
    /\ ~replScan.r

C18_WitnessTrue ==
    /\ replScan.n > 0
    /\ replScan.s = <<"{", "'", "]", "'">>
    /\ replScan.r

\* C19: read_multiline_input returns only when the lines read so far, each
\* without its trailing whitespace, joined with newlines, need no more input, and
\* it returns exactly that text; it prints ">>> " before the first line and "... "
\* before every further line.
C19_ReadMultiline ==
    /\ replRet.n > 0 =>
         LET n == Len(replRet.raw)
         IN /\ n >= 1 /\ AreLines(replRet.raw)
            /\ replRet.text = Accumulated(replRet.raw, n)
            /\ ~NeedsMoreInput(replRet.text)
            /\ \A k \in 1..(n - 1) : NeedsMoreInput(Accumulated(replRet.raw, k))
            /\ replRet.prompts = PromptsFor(n)
    /\ replLines # <<>> =>
         /\ Len(replLines) = Len(replRaw) /\ AreLines(replRaw)
         /\ Join(replLines) = Accumulated(replRaw, Len(replRaw))
         /\ NeedsMoreInput(Join(replLines))
         /\ replPrompts = PromptsFor(Len(replRaw))

C19_Witness ==
    /\ replRet.n > 0
    /\ replRet.raw = << <<"(", " ", "\n">>, <<")">> >>
    /\ replRet.text = <<"(", "\n", ")">>
    /\ replRet.prompts = <<">>> ", "... ">>

\* ---------------------------------------------------- the example programs' claims

HelloFromJs == <<"Hello from JS">>
HelloOnce ==
    /\ scProg \in {"channel", "promise_channel"}
    /\ scScript = <<[t |-> "string", s |-> HelloFromJs]>>

\* C11: with a script that calls send("Hello from JS") once, what the host reads
\* from the queue is exactly the text Hello from JS, and the host's read does
\* complete.
C11_Read == HelloOnce => (scGot = <<>> \/ scGot = <<HelloFromJs>>)

C11_HelloFromJs ==
    /\ []C11_Read
    /\ HelloOnce ~> (scGot = <<HelloFromJs>>)

C11_Witness ==
    /\ HelloOnce /\ scProg = "promise_channel"
    /\ scGot = <<HelloFromJs>> /\ scPc = "done"

C11_WitnessSync ==
    /\ HelloOnce /\ scProg = "channel"
    /\ scGot = <<HelloFromJs>> /\ scPc = "done"

\* Where text x stands first in what was printed (0: nowhere).
PrintedAt(x) ==
    IF \E k \in 1..Len(scOut) : scOut[k] = x
    THEN CHOOSE k \in 1..Len(scOut) : scOut[k] = x /\ \A j \in 1..(k - 1) : scOut[j] # x
    ELSE 0

\* C12: in async_macro.rs, once rt.idle() has returned, the intermediate value
\* and the final value have both been printed, the intermediate one before the
\* final one, and both after the prints of the module body; at no time is the
\* final value printed without the intermediate one before it.
C12_PrintOrder ==
    scProg = "async_macro" =>
      LET inter == PrintedAt(<<"Hello from Rust async">>)
          final == PrintedAt(<<"Processed: ", "Hello from Rust async">>)
          sync1 == PrintedAt(<<"ASYNC">>)
          sync2 == PrintedAt(<<"ZARK!">>)
      IN /\ scPc = "done" => (inter > 0 /\ final > 0)
         /\ final > 0 => (inter > 0 /\ inter < final)
         /\ inter > 0 => (sync1 > 0 /\ sync2 > 0 /\ sync1 < sync2 /\ sync2 < inter)

C12_Witness ==
    /\ scProg = "async_macro" /\ scPc = "done"
    /\ Len(scOut) = 5
    /\ scOut[5] = <<"Processed: ", "Hello from Rust async">>

\* ----------------------------------------------------------- the final wait's claim

\* The first resolve call of the script (0: none was made).
FirstResolve ==
    IF OfKind("resolve") = {} THEN 0
    ELSE CHOOSE i \in OfKind("resolve") : \A j \in OfKind("resolve") : i <= j

WaitEnded == waitRes.kind \in {"msg", "Oneshot Err", "Timeout"}

\* C13: main's wait on the one-shot signal under the timeout always ends, with
\* the value of the script's first resolve call if there was one, with the
\* closed-channel error if the sender was dropped unused, with "Timeout"
\* otherwise.
C13_Outcome ==
    WaitEnded =>
      IF FirstResolve # 0
      THEN waitRes = [kind |-> "msg", v |-> inv[FirstResolve].arg]
      ELSE IF resolveGone THEN waitRes.kind = "Oneshot Err"
      ELSE waitRes.kind = "Timeout"

C13_FinalWait ==
    /\ []C13_Outcome
    /\ (mode = "wait") ~> WaitEnded

C13_Witness ==
    /\ waitRes.kind = "Timeout"
    /\ Len(inv) = 0 /\ ~resolveGone

C13_WitnessValue ==
    /\ waitRes = [kind |-> "msg", v |-> 1]
    /\ Cardinality(OfKind("resolve")) = 2

C13_WitnessClosed ==
    /\ waitRes.kind = "Oneshot Err"

\* ------------------------------------------- register_oneshot: the signal is used up

\* The invocations of register_oneshot's function that have ended.
OneshotEnded == {i \in OfKind("oneshot") : inv[i].st \in {"returned", "thrown"}}

\* C29: the first invocation of register_oneshot's function uses the signal up
\* whatever comes of it: with the host receiver already dropped it throws "TX
\* Channel Closed" and nothing is delivered, otherwise it delivers its argument;
\* every later invocation throws "Already Resolved" and delivers nothing, and
\* once an invocation has ended the sender is gone for good.
C29_Consumed ==
    /\ \A i \in OneshotEnded :
          IF \A j \in OfKind("oneshot") : i <= j
          THEN IF inv[i].gone
               THEN /\ inv[i].st = "thrown" /\ inv[i].err = "TX Channel Closed"
                    /\ ~inv[i].enq
                    /\ delivered["oneshot"] = <<>>
               ELSE /\ inv[i].st = "returned"
                    /\ delivered["oneshot"] = <<inv[i].arg>>
          ELSE /\ inv[i].st = "thrown" /\ inv[i].err = "Already Resolved"
               /\ ~inv[i].enq
    /\ OneshotEnded # {} => ~slot["oneshot"]

C29_Witness ==
    \E i, j \in OneshotEnded :
        /\ i < j
        /\ inv[i].err = "TX Channel Closed"
        /\ inv[j].err = "Already Resolved"
        /\ delivered["oneshot"] = <<>>

\* ------------------------------------------------------------- call_fn's claim

\* The property names of the path, read off it dot by dot.
Names == Split(cfPath, <<>>)

\* The first name of the path whose value, reached through the names before it,
\* is not of object type (0: every name leads to an object).
FirstNonObject ==
    LET bad == {k \in 1..Len(Names) :
                   ~(KindOf(cfEnv, SubSeq(Names, 1, k)) \in {"object", "function"})}
    IN IF bad = {} THEN 0 ELSE CHOOSE k \in bad : \A j \in bad : k <= j

\* C21: call_fn follows the dotted path name by name from the globals; at the
\* first name that does not lead to an object it returns the Invalid Path error
\* naming it, and when the object reached is no function the "not a function"
\* error, without invoking anything; otherwise it invokes that function once,
\* with the given arguments, and nothing is invoked before it returns.
C21_CallFn ==
    /\ Len(cfLog) <= 1
    /\ cfPc = "loop" => cfLog = <<>>
    /\ cfPc = "done" =>
          IF FirstNonObject # 0
          THEN /\ cfRet = [kind |-> "err",
                           text |-> <<"Invalid Path: ">> \o Names[FirstNonObject]
                                        \o <<" [", "e", "]">>]
               /\ cfLog = <<>>
          ELSE IF KindOf(cfEnv, Names) # "function"
          THEN /\ cfRet = [kind |-> "err", text |-> cfPath \o <<" not a function">>]
               /\ cfLog = <<>>
          ELSE /\ cfLog = <<[fn |-> Names, args |-> cfArgs]>>
               /\ cfRet.text \in {<<"value">>, <<"exception">>}

\* A two-name path whose second name is a function of a function.
C21_Witness ==
    /\ cfPc = "done"
    /\ cfPath = <<"a", ".", "b">>
    /\ cfEnv.a = "function"
    /\ cfLog = <<[fn |-> << <<"a">>, <<"b">> >>, args |-> "json"]>>

C21_WitnessInvalid ==
    /\ cfPc = "done"
    /\ cfPath = <<"a", ".", "b">>
    /\ cfEnv.a = "object" /\ cfEnv.ab = "number"
    /\ cfRet.text = <<"Invalid Path: ", "b", " [", "e", "]">>

C21_WitnessNotFunction ==
    /\ cfPc = "done"
    /\ cfPath = <<"a", ".", "a">>
    /\ cfEnv.aa = "object"
    /\ cfRet.text = <<"a", ".", "a", " not a function">>

\* ------------------------------------------------------------ async.rs's claim

\* The script of the example.
AsExample == <<[op |-> "print", text |-> "start"],
               [op |-> "delay", text |-> "delayed"],
               [op |-> "print", text |-> "after"]>>

\* C23: the body of async_with is entered once and is complete when the await
\* returns, so some_var is 2 at the assertion, which never fails; no callback of
\* delay prints before the script has run to its end; the example's script has
\* printed start, after, delayed, in this order, when run() ends.
C23_AsyncWith ==
    /\ asBody <= 1
    /\ asPc # "panic"
    /\ asPc \in {"assert", "idle", "done"} =>
          (asBody = 1 /\ asVar = 2 /\ asIp > Len(asScript))
    /\ \A k \in 1..Len(asOut) :
          asOut[k].cb => /\ asIp > Len(asScript)
                         /\ \A j \in (k + 1)..Len(asOut) : asOut[j].cb
    /\ (asPc = "done" /\ asScript = AsExample) =>
          asOut = <<[text |-> "start", cb |-> FALSE], [text |-> "after", cb |-> FALSE],
                    [text |-> "delayed", cb |-> TRUE]>>

C23_Witness ==
    /\ asPc = "done" /\ asScript = AsExample
    /\ asVar = 2
    /\ Len(asOut) = 3 /\ asOut[3].text = "delayed"

\* -------------------------------------------------------- the REPL sessions' claims

\* C24: an evaluation that raised an exception is reported with the text of its
\* error (message and stack of an Error object) and does not end the session:
\* the session goes on after every such evaluation but one that is followed by
\* nothing yet, and no session ever ends because of a script error.
C24_ErrorsReported ==
    /\ rlRet.cause # "script"
    /\ \A k \in 1..Len(rlLog) :
          ~rlLog[k].ev.ok =>
             /\ (rlPc = "returned" /\ k = Len(rlLog)) =>
                    rlRet.cause \in {"io", "eof", "int", "err"}
             /\ \E j \in 1..Len(rlOut) :
                    /\ rlOut[j].kind = "error"
                    /\ rlLog[k].ev.ex =>
                          rlOut[j].text \in {<<"m", "\n", "s">>,
                                            <<"JS Error: ", "m", "\n", "s">>}
             /\ Cardinality({j \in 1..Len(rlOut) : rlOut[j].kind = "error"})
                  = Cardinality({j \in 1..Len(rlLog) : ~rlLog[j].ev.ok})

\* An exception, then another evaluation in the same session.
C24_Witness ==
    /\ Len(rlLog) = 2
    /\ ~rlLog[1].ev.ok /\ rlLog[1].ev.ex
    /\ rlLog[2].ev.ok
    /\ rlPc = "loop"

\* The evaluations that came back with a value other than undefined, and those
\* of them after which `_` was set.
Kept == {k \in 1..Len(rlLog) : rlLog[k].ev.ok /\ rlLog[k].ev.v # "undefined"}
KeptSet == {k \in Kept : rlLog[k].post # "set failed"}
LastOf(S) == CHOOSE k \in S : \A j \in S : j <= k

\* C25: while a session runs `_` holds the result of the latest evaluation that
\* came back with a value other than undefined (nothing before the first);
\* evaluations that threw or gave undefined, and empty inputs, which are not
\* evaluated at all, leave it as it was.  A failed set of `_` ends the session
\* and leaves `_` as it was.
C25_Underscore ==
    /\ rlPc = "loop" =>
          rlUnder = IF Kept = {} THEN <<>> ELSE <<rlLog[LastOf(Kept)].ev.v>>
    /\ rlUnder = IF KeptSet = {} THEN <<>> ELSE <<rlLog[LastOf(KeptSet)].ev.v>>
    /\ \A k \in 1..Len(rlLog) :
          /\ rlLog[k].script # <<>>
          /\ rlLog[k].post = "set failed" => (k = Len(rlLog) /\ rlPc = "returned")

\* A value, then an evaluation that threw: `_` still holds the value.
C25_Witness ==
    /\ rlPc = "loop" /\ Len(rlLog) = 2
    /\ rlLog[1].ev.v = "1" /\ ~rlLog[2].ev.ok
    /\ rlUnder = <<"1">>

\* A value, then another value: `_` holds the second.
C25_WitnessReplaced ==
    /\ rlPc = "loop" /\ Len(rlLog) = 2
    /\ rlLog[1].ev.v = "1" /\ rlLog[2].ev.v = "2"
    /\ rlUnder = <<"2">>

\* The lines as the variant stores them.
StoredAll(variant, lines) == [k \in 1..Len(lines) |-> Stored(variant, lines[k])]

\* C26: in both repl_rustyline variants, whenever the primary prompt is in
\* effect `lines` is empty; the continuation prompt is in effect exactly when
\* the buffered lines need more input; every evaluated script is made of the
\* lines entered since the evaluation before it.
C26_PromptAndBuffer ==
    rlVariant # "stdin" =>
       /\ rlPc = "loop" =>
            /\ rlPrompt = ">>> " => rlLines = <<>>
            /\ rlPrompt = "... " <=>
                  NeedsMoreInput(JoinSep(rlLines, Separator(rlVariant)))
       /\ \A k \in 1..Len(rlLog) :
            rlLog[k].script =
               JoinSep(StoredAll(rlVariant, rlLog[k].from), Separator(rlVariant))

\* C27: the stdin REPL never returns Ok: it returns only with an I/O error or
\* a failed set of `_`.  At the end of standard input it goes on: with nothing
\* pending the next read gives the empty script, which is not evaluated, and
\* the loop goes round; with a bracket left open the pending lines need more
\* input and still do after one more empty read, so read_multiline_input does
\* not return.  repl_rustyline returns Ok after end-of-file, interrupt and a
\* readline error, whatever lines are pending.
C27_Exits ==
    /\ (rlVariant = "stdin" /\ rlPc = "returned") =>
          (rlRet.kind = "err" /\ rlRet.cause \in {"io", "set failed"})
    /\ (rlVariant = "stdin" /\ rlPc = "loop" /\ replIn = <<>>) =>
          /\ replLines = <<>> => ENABLED (StdinRead \/ StdinEval)
          /\ (replRet.n = 1 /\ replRet.raw = << <<>> >>) => replRet.text = <<>>
          /\ replLines # <<>> =>
                /\ replRet.n = 0
                /\ NeedsMoreInput(Join(replLines))
                /\ NeedsMoreInput(Join(Append(replLines, <<>>)))
    /\ (rlVariant # "stdin" /\ rlPc = "returned") =>
          /\ rlRet.cause \in {"eof", "int", "err", "set failed", "to json failed"}
          /\ rlRet.cause \in {"eof", "int", "err"} => rlRet.kind = "ok"

\* repl_rustyline has returned Ok after a readline error with a line pending.
C27_Witness ==
    /\ rlVariant # "stdin" /\ rlPc = "returned"
    /\ rlRet = [kind |-> "ok", cause |-> "err"]
    /\ rlLines # <<>> /\ rlPrompt = "... "

\* The stdin REPL at the end of input with a bracket left open.
C27_WitnessOpen ==
    /\ rlVariant = "stdin" /\ rlPc = "loop"
    /\ replIn = <<>> /\ replLines = << <<"(">>, <<>> >>

\* The stdin REPL at the end of input, after an evaluation, with the empty
\* script in hand.
C27_WitnessEmpty ==
    /\ rlVariant = "stdin" /\ rlPc = "loop"
    /\ replIn = <<>> /\ rlLog # <<>>
    /\ replRet.n = 1 /\ replRet.text = <<>> /\ replRet.raw = << <<>> >>


\* ------------------------------------------------ examples/demo.rs, the echo task

\* The replies the task has placed on the queue behind `recv`, in order.
EchoEnqueued == SelectSeq(echoLog, LAMBDA e : e.ok)

\* The invocations of `send` whose promise was fulfilled.
EchoSendsOk == {i \in 1..Len(inv) : inv[i].kind = "send" /\ inv[i].st = "resolved"}

\* The invocations of `recv` whose promise is no longer pending.
EchoRecvsSettled ==
    {i \in 1..Len(inv) : inv[i].kind = "recv" /\ inv[i].st \in {"resolved", "rejected"}}

\* The bytes of "MSG [n]" for a one-digit n.
EchoExpected(n) == <<77, 83, 71, 32, 91, 48 + n, 93>>

\* The task has taken exactly the messages the log shows, in order.
EchoLogged ==
    /\ Len(echoLog) = Len(hostGot)
    /\ \A k \in 1..Len(echoLog) : echoLog[k].msg = hostGot[k]

\* The n-th reply placed on the queue is the bytes of "MSG [n]".
EchoNumbered ==
    \A k \in 1..Len(EchoEnqueued) : EchoEnqueued[k].reply = EchoExpected(k - 1)

\* Replies never outnumber the successful sends, a `recv` is settled only by a
\* reply, and the task ends only after the sender behind `send` is gone.
EchoBounded ==
    /\ Len(EchoEnqueued) <= Cardinality(EchoSendsOk)
    /\ Cardinality(EchoRecvsSettled) <= Cardinality(EchoSendsOk)
    /\ \A i \in EchoRecvsSettled :
          /\ inv[i].st = "resolved"
          /\ \E k \in 1..Len(EchoEnqueued) : inv[i].val = EchoEnqueued[k].reply
    /\ echoPc = "stopped" => ~sendAlive

C28_WitnessDropped ==
    /\ ~inRxAlive
    /\ \E k \in 1..Len(echoLog) : ~echoLog[k].ok

====
